---- MODULE Spec2Model ----
(***************************************************************************)
(* Keyboard-TestKit: the event acquisition (EvdevListener), key remapping  *)
(* (KeyRemapper) and input authenticity classification                     *)
(* (VirtualKeyboardTest) pipeline.                                         *)
(*                                                                         *)
(* Each component owns its state exclusively, so each is a record-valued   *)
(* variable whose fields keep the names of the Rust struct fields.         *)
(***************************************************************************)
EXTENDS Integers, Sequences, FiniteSets, TLC

VARIABLES
    evdev,        \* EvdevListener: pressed_keys, last_poll, enabled
    channel,      \* mpsc channel: the KeyEvents sent by the listener, in order
    alog,         \* history: one entry per input record read by poll()
    remapper,     \* KeyRemapper
    rlast,        \* history: the last call made on the remapper
    down,         \* history: codes whose latest process_key was a press
    nops,         \* number of calls made on the remapper so far (also its clock)
    redit,        \* history: the last watched table edit and the key events since
    cobs,         \* history: per scancode, the observations recorded since the capture table was cleared
    vtest,        \* VirtualKeyboardTest (classifier part)
    vnow,         \* history: wall clock at the last classifier call (ms)
    vprev,        \* history: the classifier before its last press
    vpath,        \* history: the classifications a followed session went through
    lost,         \* environment: the devices whose reads fail from now on
    tick,         \* history: the device reads of the last poll() and how each ended
    opening,      \* history: the last EvdevListener::new call and its result
    app,          \* App: state, total_events, keyboard_state, stats of oem_test
    handed,       \* history: the KeyEvents handed to App::process_event, in order
    plog,         \* history: the consumers run by App::process_event, in order
    recorded,     \* history: the results given to RemapStats::record since RemapStats::new
    counted,      \* history: the events handed over while Running since App::new or reset_all
    kobs          \* history: per key, its latest event since KeyboardState::new or reset

vars == <<evdev, channel, alog, remapper, rlast, down, nops, vtest, vnow, vprev,
          vpath, lost, tick, redit, cobs, opening, app, handed, plog,
          recorded, counted, kobs>>

acqVars == <<evdev, channel, alog, lost, tick>>
remapVars == <<remapper, rlast, down, nops, redit, cobs>>
clsVars == <<vtest, vnow, vprev, vpath>>
openVars == <<opening>>
appVars == <<app, handed, plog, recorded, counted, kobs>>

None == "None"

(***************************************************************************)
(* Bounds                                                                  *)
(***************************************************************************)
NumDevices == 2
MaxFed == 3
MaxPolls == 2
MaxOps == 4
MaxStream == 4
MaxPresses == 10
MaxFree == 7
MaxLong == 51
MaxCandidates == 4
MaxBurst == 7
\* directory entries find_keyboard_devices is given
MaxEntries == 2
\* presses of a session followed through its classifications
MaxSticky == 62
\* results recorded in one RemapStats
MaxRecorded == 3
\* events handed to the App one at a time
MaxSubmitted == 4
\* the main loop's clock stops here (ms)
MaxClock == 51
\* events handed to the classifier around a virtual-key diagnostic
MaxDiag == 4

(***************************************************************************)
(* Device Acquisitor: src/keyboard/evdev_listener.rs                       *)
(***************************************************************************)
EV_KEY == 1
EV_REL == 2

Devices == 1..NumDevices

\* scancodes the modelled devices produce
AcqCodes == {30, 31}

\* struct InputEvent, without the kernel time stamp that poll() ignores
InputEvent == [event_type : {EV_KEY}, code : AcqCodes, value : {0, 1, 2}]
                \cup [event_type : {EV_REL}, code : {30}, value : {1}]

\* KeyEvent::new
KeyEvent(key, event_type, timestamp, delta_us) ==
    [key |-> key, event_type |-> event_type, timestamp |-> timestamp, delta_us |-> delta_us]

\* EvdevListener::new, after a successful open
EvdevListener_new == [pressed_keys |-> {}, last_poll |-> 0, enabled |-> TRUE]

\* poll_record with the result of pressed_keys.insert() ignored:
\* a press of a code that is already pressed is sent again
poll_record_resend(pressed_keys, input_event, now, delta_us) ==
    IF input_event.event_type = EV_KEY /\ input_event.value = 1
    THEN [pressed_keys |-> pressed_keys \cup {input_event.code},
          sent |-> <<KeyEvent(input_event.code, "Press", now, delta_us)>>]
    ELSE IF input_event.event_type = EV_KEY /\ input_event.value = 0
              /\ input_event.code \in pressed_keys
         THEN [pressed_keys |-> pressed_keys \ {input_event.code},
               sent |-> <<KeyEvent(input_event.code, "Release", now, delta_us)>>]
         ELSE [pressed_keys |-> pressed_keys, sent |-> <<>>]

\* poll_record without the `value == 2` skip: autorepeat counts as a press
poll_record_repeat(pressed_keys, input_event, now, delta_us) ==
    IF input_event.event_type = EV_KEY /\ input_event.value # 0
           /\ input_event.code \notin pressed_keys
    THEN [pressed_keys |-> pressed_keys \cup {input_event.code},
          sent |-> <<KeyEvent(input_event.code, "Press", now, delta_us)>>]
    ELSE IF input_event.event_type = EV_KEY /\ input_event.value = 0
              /\ input_event.code \in pressed_keys
         THEN [pressed_keys |-> pressed_keys \ {input_event.code},
               sent |-> <<KeyEvent(input_event.code, "Release", now, delta_us)>>]
         ELSE [pressed_keys |-> pressed_keys, sent |-> <<>>]

\* poll_record with the result of pressed_keys.remove() ignored:
\* a release of a code that is not pressed is sent
poll_record_release(pressed_keys, input_event, now, delta_us) ==
    IF input_event.event_type = EV_KEY /\ input_event.value = 1
           /\ input_event.code \notin pressed_keys
    THEN [pressed_keys |-> pressed_keys \cup {input_event.code},
          sent |-> <<KeyEvent(input_event.code, "Press", now, delta_us)>>]
    ELSE IF input_event.event_type = EV_KEY /\ input_event.value = 0
         THEN [pressed_keys |-> pressed_keys \ {input_event.code},
               sent |-> <<KeyEvent(input_event.code, "Release", now, delta_us)>>]
         ELSE [pressed_keys |-> pressed_keys, sent |-> <<>>]

\* One input record inside poll(): the body of the `for i in 0..num_events` loop.
\* Returns the new pressed set and the events sent for this record.
poll_record(pressed_keys, input_event, now, delta_us) ==
    IF input_event.event_type = EV_KEY
    THEN LET scancode == input_event.code
             pressed == input_event.value # 0
         IN IF input_event.value = 2
            THEN [pressed_keys |-> pressed_keys, sent |-> <<>>]
            ELSE IF pressed
                 THEN IF scancode \in pressed_keys
                      THEN [pressed_keys |-> pressed_keys, sent |-> <<>>]
                      ELSE [pressed_keys |-> pressed_keys \cup {scancode},
                            sent |-> <<KeyEvent(scancode, "Press", now, delta_us)>>]
                 ELSE IF scancode \notin pressed_keys
                      THEN [pressed_keys |-> pressed_keys, sent |-> <<>>]
                      ELSE [pressed_keys |-> pressed_keys \ {scancode},
                            sent |-> <<KeyEvent(scancode, "Release", now, delta_us)>>]
    ELSE [pressed_keys |-> pressed_keys, sent |-> <<>>]

\* `for device in &mut self.devices { loop { match device.read(..) ..` of poll():
\* batch lists what the devices have buffered, device by device, as [dev, rec];
\* acc = [pressed_keys, sent, log]
RECURSIVE poll_devices(_, _, _, _)
poll_devices(acc, batch, now, delta_us) ==
    IF batch = <<>> THEN acc
    ELSE LET b == Head(batch)
             r == poll_record(acc.pressed_keys, b.rec, now, delta_us)
         IN poll_devices([pressed_keys |-> r.pressed_keys,
                          sent |-> acc.sent \o r.sent,
                          log |-> Append(acc.log, [dev |-> b.dev, rec |-> b.rec,
                                                   before |-> acc.pressed_keys,
                                                   after |-> r.pressed_keys,
                                                   sent |-> r.sent])],
                         Tail(batch), now, delta_us)

\* what the devices have buffered when poll() runs: n records, read in device order
Batches(n) ==
    {[i \in 1..n |-> [dev |-> devs[i], rec |-> recs[i]]] :
        devs \in {d \in [1..n -> Devices] : \A i \in 1..n : \A j \in 1..n : i < j => d[i] <= d[j]},
        recs \in [1..n -> InputEvent]}

\* EvdevListener::poll; dt is the time since the previous poll.  A device in
\* lost answers every read with Err(_), which ends its read loop at once.
Poll(batch, dt) ==
    /\ evdev.last_poll < MaxPolls
    /\ \A i \in 1..Len(batch) : batch[i].dev \notin lost
    /\ IF ~evdev.enabled
       THEN UNCHANGED acqVars
       ELSE LET now == evdev.last_poll + dt
                delta_us == now - evdev.last_poll
                r == poll_devices([pressed_keys |-> evdev.pressed_keys,
                                   sent |-> <<>>, log |-> <<>>],
                                  batch, now, delta_us)
            IN /\ evdev' = [evdev EXCEPT !.pressed_keys = r.pressed_keys,
                                         !.last_poll = now]
               /\ channel' = channel \o r.sent
               /\ alog' = alog \o r.log
               /\ UNCHANGED <<lost, tick>>
    /\ UNCHANGED <<remapVars, clsVars, openVars, appVars>>

\* EvdevListener::set_enabled
Evdev_set_enabled(enabled) ==
    /\ evdev' = [evdev EXCEPT !.enabled = enabled]
    /\ UNCHANGED <<channel, alog, lost, tick, remapVars, clsVars, openVars, appVars>>

AcqNext ==
    \/ \E n \in 0..(MaxFed - Len(alog)) : \E batch \in Batches(n) : Poll(batch, 1)
    \/ \E b \in BOOLEAN : Evdev_set_enabled(b)

\* EvdevListener::reset, called dt after the previous poll
Evdev_reset(dt) ==
    /\ evdev.last_poll + dt <= MaxPolls
    /\ evdev' = [evdev EXCEPT !.pressed_keys = {}, !.last_poll = evdev.last_poll + dt]
    /\ UNCHANGED <<channel, alog, lost, tick, remapVars, clsVars, openVars, appVars>>

\* poll(), set_enabled() and reset() in any order
AcqResetNext ==
    \/ \E n \in 0..(IF Len(alog) < MaxFed THEN 1 ELSE 0) :
          \E batch \in Batches(n) : Poll(batch, 1)
    \/ \E b \in BOOLEAN : Evdev_set_enabled(b)
    \/ \E dt \in {0, 1} : Evdev_reset(dt)

(***************************************************************************)
(* Key Remapping Engine: src/keyboard/remap.rs                             *)
(***************************************************************************)
\* the scancodes of the static KEYMAP table (src/keyboard/keymap.rs)
KEYMAP == (1..54) \cup (56..68) \cup {87, 88, 97, 100} \cup (102..111) \cup {125, 126, 127}

FnKeyMode == {"Disabled", "CaptureOnly", "RestoreWithModifier", "MapToFKeys", "MapToMedia"}
\* the modes set_fn_mode is called with
FnModes == {"Disabled", "CaptureOnly", "MapToFKeys"}

UnknownKeyBehavior == {"PassThrough", "CaptureAndPassThrough", "Block"}

\* scancodes fed to the remapper: a KEYMAP key with a default combo, the two
\* default FN scancodes, a scancode outside KEYMAP
RemapCodes == {2, 464, 480, 999}
MapTargets == {1}
ComboTargets == {59}

\* RemapResult
Unchanged(key) == [kind |-> "Unchanged", code |-> key]
Remapped(from, to) == [kind |-> "Remapped", from |-> from, to |-> to]
Blocked(key) == [kind |-> "Blocked", code |-> key]
FnModifier(pressed) == [kind |-> "FnModifier", pressed |-> pressed]
FnCombo(original, result) == [kind |-> "FnCombo", original |-> original, result |-> result]

\* HashMap::remove
MapRemove(m, k) == [x \in DOMAIN m \ {k} |-> m[x]]
\* an insert that keeps the value a key already has
MapInsert_keep_existing(m, k, v) ==
    [x \in DOMAIN m \cup {k} |-> IF x \in DOMAIN m THEN m[x] ELSE v]
\* HashMap::insert
MapInsert(m, k, v) == [x \in DOMAIN m \cup {k} |-> IF x = k THEN v ELSE m[x]]

\* KeyRemapper::setup_default_fn_combos
setup_default_fn_combos ==
    (2 :> 59) @@ (3 :> 60) @@ (4 :> 61) @@ (5 :> 62) @@ (6 :> 63) @@ (7 :> 64)
    @@ (8 :> 65) @@ (9 :> 66) @@ (10 :> 67) @@ (11 :> 68) @@ (12 :> 87) @@ (13 :> 88)
    @@ (105 :> 165) @@ (106 :> 163) @@ (103 :> 115) @@ (108 :> 114)
    @@ (57 :> 164) @@ (14 :> 111) @@ (1 :> 142)

\* KeyRemapper::new
KeyRemapper_new ==
    [mappings |-> <<>>,
     fn_mode |-> "CaptureOnly",
     fn_held |-> FALSE,
     fn_scancodes |-> <<464, 480>>,
     unknown_behavior |-> "CaptureAndPassThrough",
     captured_keys |-> <<>>,
     fn_combos |-> setup_default_fn_combos,
     enabled |-> TRUE]

\* KeyRemapper::is_fn_key
is_fn_key(self, scancode) ==
    \E i \in 1..Len(self.fn_scancodes) : self.fn_scancodes[i] = scancode

\* CapturedKey::new
CapturedKey_new(scancode, pressed, label, now) ==
    [scancode |-> scancode, timestamp |-> now, pressed |-> pressed,
     press_count |-> IF pressed THEN 1 ELSE 0, label |-> label]

\* capture_key with releases counted like presses
capture_key_counts_release(captured_keys, scancode, pressed, label, now) ==
    IF scancode \in DOMAIN captured_keys
    THEN LET existing == captured_keys[scancode]
         IN MapInsert(captured_keys, scancode,
                [scancode |-> existing.scancode,
                 timestamp |-> now,
                 pressed |-> pressed,
                 press_count |-> existing.press_count + 1,
                 label |-> IF label # None THEN label ELSE existing.label])
    ELSE MapInsert(captured_keys, scancode, CapturedKey_new(scancode, pressed, label, now))

\* capture_key with a press counted only when the clock has moved on since
\* the entry was last written
capture_key_debounced(captured_keys, scancode, pressed, label, now) ==
    IF scancode \in DOMAIN captured_keys
    THEN LET existing == captured_keys[scancode]
         IN MapInsert(captured_keys, scancode,
                [scancode |-> existing.scancode,
                 timestamp |-> now,
                 pressed |-> pressed,
                 press_count |-> IF pressed /\ now # existing.timestamp
                                 THEN existing.press_count + 1
                                 ELSE existing.press_count,
                 label |-> IF label # None THEN label ELSE existing.label])
    ELSE MapInsert(captured_keys, scancode, CapturedKey_new(scancode, pressed, label, now))

\* KeyRemapper::capture_key, on the captured_keys map
capture_key(captured_keys, scancode, pressed, label, now) ==
    IF scancode \in DOMAIN captured_keys
    THEN LET existing == captured_keys[scancode]
         IN MapInsert(captured_keys, scancode,
                [scancode |-> existing.scancode,
                 timestamp |-> now,
                 pressed |-> pressed,
                 press_count |-> IF pressed THEN existing.press_count + 1
                                 ELSE existing.press_count,
                 label |-> IF label # None THEN label ELSE existing.label])
    ELSE MapInsert(captured_keys, scancode, CapturedKey_new(scancode, pressed, label, now))

\* process_key with one of its conditions altered (bug = name of the alteration)
process_key_bug(self, key, pressed, now, bug) ==
    LET mapped == (self.enabled \/ bug = "ignores_enabled")
                    /\ key \in DOMAIN self.mappings
                    /\ (bug = "map_press_only" => pressed)
        isFn == is_fn_key(self, key)
                    /\ (bug = "fn_gated_by_mode" => self.fn_mode # "Disabled")
                    /\ (bug = "map_before_fn" => ~mapped)
        combo == self.fn_held /\ (pressed \/ bug = "combo_on_release")
                    /\ self.fn_mode # "Disabled" /\ key \in DOMAIN self.fn_combos
        captures == bug = "passthrough_skips_capture" => self.unknown_behavior # "PassThrough"
    IN
    IF isFn
    THEN [self |-> [self EXCEPT !.fn_held = pressed,
                                !.captured_keys = capture_key(@, key, pressed, "Fn", now)],
          result |-> FnModifier(pressed)]
    ELSE IF combo
    THEN [self |-> [self EXCEPT !.captured_keys = capture_key(@, key, pressed, None, now)],
          result |-> FnCombo(key, self.fn_combos[key])]
    ELSE IF mapped
    THEN [self |-> self, result |-> Remapped(key, self.mappings[key])]
    ELSE IF key \notin KEYMAP
    THEN [self |-> [self EXCEPT !.captured_keys =
                        IF captures THEN capture_key(@, key, pressed, None, now) ELSE @],
          result |-> IF self.unknown_behavior = "Block" THEN Blocked(key)
                     ELSE Unchanged(key)]
    ELSE [self |-> self, result |-> Unchanged(key)]

\* the combo test without `pressed`: a release while FN is held fires the combo
process_key_combo_on_release(self, key, pressed, now) ==
    process_key_bug(self, key, pressed, now, "combo_on_release")

\* the direct mapping looked up before the FN scancode test
process_key_map_before_fn(self, key, pressed, now) ==
    process_key_bug(self, key, pressed, now, "map_before_fn")

\* the direct mapping applied to presses only
process_key_map_press_only(self, key, pressed, now) ==
    process_key_bug(self, key, pressed, now, "map_press_only")

\* FN detection skipped in FnKeyMode::Disabled
process_key_fn_gated_by_mode(self, key, pressed, now) ==
    process_key_bug(self, key, pressed, now, "fn_gated_by_mode")

\* the direct mapping applied whatever the enabled flag is
process_key_ignores_enabled(self, key, pressed, now) ==
    process_key_bug(self, key, pressed, now, "ignores_enabled")

\* unknown keys not captured under UnknownKeyBehavior::PassThrough
process_key_passthrough_skips_capture(self, key, pressed, now) ==
    process_key_bug(self, key, pressed, now, "passthrough_skips_capture")

\* KeyRemapper::process_key; returns the new remapper and the RemapResult
process_key(self, key, pressed, now) ==
    IF is_fn_key(self, key)
    THEN [self |-> [self EXCEPT !.fn_held = pressed,
                                !.captured_keys = capture_key(@, key, pressed, "Fn", now)],
          result |-> FnModifier(pressed)]
    ELSE IF self.fn_held /\ pressed /\ self.fn_mode # "Disabled"
            /\ key \in DOMAIN self.fn_combos
    THEN [self |-> [self EXCEPT !.captured_keys = capture_key(@, key, pressed, None, now)],
          result |-> FnCombo(key, self.fn_combos[key])]
    ELSE IF self.enabled /\ key \in DOMAIN self.mappings
    THEN [self |-> self, result |-> Remapped(key, self.mappings[key])]
    ELSE IF key \notin KEYMAP
    THEN [self |-> [self EXCEPT !.captured_keys = capture_key(@, key, pressed, None, now)],
          result |-> IF self.unknown_behavior = "Block" THEN Blocked(key)
                     ELSE Unchanged(key)]
    ELSE [self |-> self, result |-> Unchanged(key)]

\* a call of KeyRemapper::process_key
\* whether process_key(key, pressed) reaches one of its capture_key calls
records_observation(self, key, pressed) ==
    \/ is_fn_key(self, key)
    \/ self.fn_held /\ pressed /\ self.fn_mode # "Disabled" /\ key \in DOMAIN self.fn_combos
    \/ ~(self.enabled /\ key \in DOMAIN self.mappings) /\ key \notin KEYMAP

ProcessKey(key, pressed) ==
    /\ LET r == process_key(remapper, key, pressed, nops + 1)
       IN /\ remapper' = r.self
          /\ rlast' = [op |-> "process_key", key |-> key, pressed |-> pressed,
                       result |-> r.result, before |-> remapper, after |-> r.self]
    /\ down' = IF pressed THEN down \cup {key} ELSE down \ {key}
    /\ nops' = nops + 1
    /\ redit' = IF redit.call = None THEN redit
                ELSE [redit EXCEPT !.age = IF @ < 2 THEN @ + 1 ELSE @]
    /\ cobs' = IF records_observation(remapper, key, pressed)
               THEN LET old == IF key \in DOMAIN cobs THEN cobs[key]
                               ELSE [presses |-> 0, releases |-> 0, labelled |-> FALSE]
                    IN MapInsert(cobs, key,
                           [presses |-> old.presses + (IF pressed THEN 1 ELSE 0),
                            releases |-> old.releases + (IF pressed THEN 0 ELSE 1),
                            labelled |-> old.labelled \/ is_fn_key(remapper, key)])
               ELSE cobs
    /\ UNCHANGED <<acqVars, clsVars, openVars, appVars>>

\* a configuration call that replaces the remapper by r (a call that changes
\* nothing is no step)
Configure(r) ==
    /\ nops < MaxOps
    /\ r # remapper
    /\ remapper' = r
    /\ nops' = nops + 1
    /\ cobs' = IF r.captured_keys = <<>> /\ remapper.captured_keys # <<>> THEN <<>> ELSE cobs
    /\ UNCHANGED <<rlast, down, redit, acqVars, clsVars, openVars, appVars>>

\* KeyRemapper::set_enabled
Remap_set_enabled(enabled) == Configure([remapper EXCEPT !.enabled = enabled])

\* KeyRemapper::set_fn_mode
set_fn_mode(mode) == Configure([remapper EXCEPT !.fn_mode = mode])

\* KeyRemapper::set_unknown_behavior
set_unknown_behavior(behavior) == Configure([remapper EXCEPT !.unknown_behavior = behavior])

\* KeyRemapper::add_fn_scancode
add_fn_scancode(scancode) ==
    Configure(IF ~is_fn_key(remapper, scancode)
              THEN [remapper EXCEPT !.fn_scancodes = Append(@, scancode)]
              ELSE remapper)

\* KeyRemapper::set_fn_scancodes
set_fn_scancodes(scancodes) == Configure([remapper EXCEPT !.fn_scancodes = scancodes])

\* KeyRemapper::add_mapping
add_mapping(from, to) == Configure([remapper EXCEPT !.mappings = MapInsert(@, from, to)])

\* KeyRemapper::remove_mapping
remove_mapping(from) == Configure([remapper EXCEPT !.mappings = MapRemove(@, from)])

\* KeyRemapper::clear_mappings
clear_mappings == Configure([remapper EXCEPT !.mappings = <<>>])

\* KeyRemapper::add_fn_combo
add_fn_combo(key, result) == Configure([remapper EXCEPT !.fn_combos = MapInsert(@, key, result)])

\* KeyRemapper::remove_fn_combo
remove_fn_combo(key) == Configure([remapper EXCEPT !.fn_combos = MapRemove(@, key)])

\* KeyRemapper::clear_captured
clear_captured == Configure([remapper EXCEPT !.captured_keys = <<>>])

\* KeyRemapper::reset_state
reset_state == Configure([remapper EXCEPT !.fn_held = FALSE, !.captured_keys = <<>>])

\* the remapper under arbitrary calls: key events and configuration
RemapNext ==
    \/ \E key \in RemapCodes : \E pressed \in BOOLEAN :
          nops < MaxOps /\ ProcessKey(key, pressed)
    \/ \E b \in BOOLEAN : Remap_set_enabled(b)
    \/ \E m \in FnModes : set_fn_mode(m)
    \/ \E b \in UnknownKeyBehavior : set_unknown_behavior(b)
    \/ \E c \in RemapCodes : add_fn_scancode(c)
    \/ \E c \in RemapCodes : \E t \in MapTargets : add_mapping(c, t)
    \/ \E c \in RemapCodes : remove_mapping(c)
    \/ clear_mappings
    \/ \E c \in RemapCodes : \E t \in ComboTargets : add_fn_combo(c, t)
    \/ \E c \in RemapCodes : remove_fn_combo(c)
    \/ clear_captured
    \/ reset_state

\* scancodes followed in the capture table: a default FN scancode and a
\* scancode outside KEYMAP that is none
CaptureCodes == {464, 999}

\* the remapper fed key events while its FN scancode set is replaced and its
\* capture table is cleared
CaptureNext ==
    \/ \E key \in CaptureCodes : \E pressed \in BOOLEAN :
          nops < MaxOps /\ ProcessKey(key, pressed)
    \/ \E scancodes \in {<<>>, <<464, 480>>, <<999>>} : set_fn_scancodes(scancodes)
    \/ \E c \in CaptureCodes : add_fn_scancode(c)
    \/ \E b \in UnknownKeyBehavior : set_unknown_behavior(b)
    \/ clear_captured
    \/ reset_state

\* a table edit made between two key events, remembered until the events
\* that follow it: call(key, target) replaces the remapper by r
Edit(call, key, target, r) ==
    /\ nops < MaxOps
    /\ remapper' = r
    /\ nops' = nops + 1
    /\ redit' = [call |-> call, key |-> key, target |-> target, age |-> 0,
                 fn_held |-> remapper.fn_held]
    /\ UNCHANGED <<rlast, down, cobs, acqVars, clsVars, openVars, appVars>>

\* scancodes whose table entries are edited between events: a KEYMAP key and
\* a scancode outside KEYMAP
EditCodes == {2, 999}

\* the remapper with its mapping and combo tables edited between key events
RemapEditNext ==
    \/ \E key \in EditCodes \cup {464} : \E pressed \in BOOLEAN :
          nops < MaxOps /\ ProcessKey(key, pressed)
    \/ \E b \in BOOLEAN :
          b # remapper.enabled
            /\ Edit("set_enabled", 0, b, [remapper EXCEPT !.enabled = b])
    \/ \E m \in {"Disabled", "CaptureOnly"} : set_fn_mode(m)
    \/ \E b \in {"PassThrough", "Block"} : set_unknown_behavior(b)
    \/ \E c \in EditCodes : \E t \in MapTargets :
          Edit("add_mapping", c, t, [remapper EXCEPT !.mappings = MapInsert(@, c, t)])
    \/ \E c \in EditCodes :
          Edit("remove_mapping", c, 0, [remapper EXCEPT !.mappings = MapRemove(@, c)])
    \/ \E c \in EditCodes : \E t \in {60} :
          Edit("add_fn_combo", c, t, [remapper EXCEPT !.fn_combos = MapInsert(@, c, t)])
    \/ \E c \in EditCodes :
          Edit("remove_fn_combo", c, 0, [remapper EXCEPT !.fn_combos = MapRemove(@, c)])

\* the remapper with its default configuration, fed the stream the listener
\* produces: per key, presses and releases alternate
RemapKeysNext ==
    \E key \in RemapCodes : \E pressed \in BOOLEAN :
        /\ nops < MaxStream
        /\ pressed <=> key \notin down
        /\ ProcessKey(key, pressed)

(***************************************************************************)
(* Input Authenticity Classifier: src/tests/virtual_detect.rs              *)
(*                                                                         *)
(* Instants are integers in milliseconds.  Instants are only ever compared *)
(* through duration_since()/elapsed(), so the origin of the clock is       *)
(* arbitrary.  f64 quantities are kept exact: an interval is an integer    *)
(* number of ms, interval_mean is <<sum, n>> and interval_variance is      *)
(* <<sum of squares, sum, n>>.                                             *)
(* recent_keystrokes is written by process_event and never read; it is not *)
(* modelled.                                                               *)
(***************************************************************************)
MIN_HUMAN_INTERVAL_MS == 15
\* PERFECT_TIMING_THRESHOLD = 0.5, as a fraction
PERFECT_TIMING_THRESHOLD == <<1, 2>>
BURST_WINDOW_MS == 50
BURST_COUNT_THRESHOLD == 5
ANALYSIS_WINDOW == 20
\* record_anomaly: Duration::from_millis(100), anomalies.len() > 50
ANOMALY_DEDUP_MS == 100
ANOMALY_HISTORY == 50
\* update_classification: Duration::from_secs(5), total_keystrokes < 10, > 50
RECENT_ANOMALY_MS == 5000
MIN_KEYSTROKES == 10
PHYSICAL_KEYSTROKES == 50

\* Option<T> of the classifier: None and Some(x)
Nothing == <<>>
Some(x) == <<x>>

\* time between two presses, in ms
Deltas == {10, 100, 6000}

\* VirtualKeyboardTest::new (and reset), built with the virtual-send feature;
\* recent_keystrokes and test_results are written and never read
VirtualKeyboardTest_new ==
    [last_keystroke |-> Nothing,
     total_keystrokes |-> 0,
     virtual_count |-> 0,
     anomalies |-> <<>>,
     session_classification |-> "Uncertain",
     intervals |-> <<>>,
     burst_window |-> <<>>,
     start_time |-> Nothing,
     last_interval_ms |-> Nothing,
     interval_variance |-> <<0, 0, 1>>,
     interval_mean |-> <<0, 1>>,
     expected_virtual_keys |-> <<>>,
     virtual_send_time |-> Nothing,
     diagnostic |-> "NotTested",
     physical_keys_received |-> 0,
     virtual_keys_received |-> 0,
     test_mode_active |-> FALSE,
     pending_send |-> FALSE]

RECURSIVE SeqSum(_)
SeqSum(q) == IF q = <<>> THEN 0 ELSE Head(q) + SeqSum(Tail(q))

\* record_anomaly with a de-duplication window of one second
record_anomaly_wide_dedup(self, description, timestamp, severity) ==
    IF self.anomalies # <<>>
          /\ timestamp - self.anomalies[Len(self.anomalies)].timestamp < 1000
    THEN self
    ELSE [self EXCEPT !.anomalies = Append(@, [description |-> description,
                                               timestamp |-> timestamp,
                                               severity |-> severity])]

\* record_anomaly with a de-duplication window of 10 ms
record_anomaly_short_dedup(self, description, timestamp, severity) ==
    IF self.anomalies # <<>>
          /\ timestamp - self.anomalies[Len(self.anomalies)].timestamp < 10
    THEN self
    ELSE [self EXCEPT !.anomalies = Append(@, [description |-> description,
                                               timestamp |-> timestamp,
                                               severity |-> severity])]

\* VirtualKeyboardTest::record_anomaly
record_anomaly(self, description, timestamp, severity) ==
    IF self.anomalies # <<>>
          /\ timestamp - self.anomalies[Len(self.anomalies)].timestamp < ANOMALY_DEDUP_MS
    THEN self
    ELSE LET pushed == Append(self.anomalies,
                              [description |-> description, timestamp |-> timestamp,
                               severity |-> severity])
         IN [self EXCEPT !.anomalies = IF Len(pushed) > ANOMALY_HISTORY
                                       THEN Tail(pushed) ELSE pushed]

RECURSIVE SeqMin(_)
SeqMin(q) == IF Len(q) = 1 THEN q[1]
             ELSE LET m == SeqMin(Tail(q)) IN IF Head(q) < m THEN Head(q) ELSE m

RECURSIVE SeqMax(_)
SeqMax(q) == IF Len(q) = 1 THEN q[1]
             ELSE LET m == SeqMax(Tail(q)) IN IF Head(q) > m THEN Head(q) ELSE m

\* `variance < th` of analyze_timing for the population variance
\*   sum((x - mean)^2) / n = (n * sum(y^2) - sum(y)^2) / n^2,  y = x - min(x),
\* with th = <<num, den>> <= 1.  Values spread over 5 ms or more have a variance
\* of at least 25 / (2 * n) > 1/2 for n <= ANALYSIS_WINDOW and are decided
\* without forming the squares.
variance_below(xs, th) ==
    LET n == Len(xs)
        lo == SeqMin(xs)
        ys == [i \in 1..n |-> xs[i] - lo]
        sum == SeqSum(ys)
        sumsq == SeqSum([i \in 1..n |-> ys[i] * ys[i]])
    IN /\ SeqMax(xs) - lo < 5
       /\ (n * sumsq - sum * sum) * th[2] < th[1] * n * n

\* VirtualKeyboardTest::analyze_timing; returns [self, is_suspicious]
analyze_timing(self, interval_ms, timestamp) ==
    LET s1 == IF interval_ms < MIN_HUMAN_INTERVAL_MS
              THEN record_anomaly(self, "Inhuman speed", timestamp, "High")
              ELSE self
        suspicious1 == interval_ms < MIN_HUMAN_INTERVAL_MS
        pushed == Append(s1.intervals, interval_ms)
        intervals == IF Len(pushed) > ANALYSIS_WINDOW THEN Tail(pushed) ELSE pushed
        s2 == [s1 EXCEPT !.intervals = intervals]
        n == Len(intervals)
        sum == SeqSum(intervals)
        sumsq == SeqSum([i \in 1..n |-> intervals[i] * intervals[i]])
    IN IF n >= 5
       THEN LET s3 == [s2 EXCEPT !.interval_mean = <<sum, n>>,
                                 !.interval_variance = <<sumsq, sum, n>>]
            IN IF variance_below(intervals, PERFECT_TIMING_THRESHOLD) /\ n >= 10
               THEN [self |-> record_anomaly(s3, "Perfect timing", timestamp, "Medium"),
                     is_suspicious |-> TRUE]
               ELSE [self |-> s3, is_suspicious |-> suspicious1]
       ELSE [self |-> s2, is_suspicious |-> suspicious1]

\* the `while let Some(front)` loop of detect_burst
RECURSIVE evict_burst(_, _)
evict_burst(burst_window, timestamp) ==
    IF burst_window # <<>> /\ timestamp - Head(burst_window) > BURST_WINDOW_MS
    THEN evict_burst(Tail(burst_window), timestamp)
    ELSE burst_window

\* VirtualKeyboardTest::detect_burst; returns [self, is_suspicious]
detect_burst(self, timestamp) ==
    LET s1 == [self EXCEPT !.burst_window = evict_burst(Append(@, timestamp), timestamp)]
    IN IF Len(s1.burst_window) >= BURST_COUNT_THRESHOLD
       THEN [self |-> record_anomaly(s1, "keys in window", timestamp, "High"),
             is_suspicious |-> TRUE]
       ELSE [self |-> s1, is_suspicious |-> FALSE]

\* the anomalies with timestamp.elapsed() < 5 s at wall-clock time now
recent_anomalies(self, now) ==
    Cardinality({i \in 1..Len(self.anomalies) :
                    now - self.anomalies[i].timestamp < RECENT_ANOMALY_MS})

\* the classification update_classification computes; min is the number of
\* keystrokes below which it is Uncertain
classify(self, now, min) ==
    IF self.total_keystrokes < min THEN "Uncertain"
    ELSE LET vc == self.virtual_count
             total == self.total_keystrokes
             a == recent_anomalies(self, now)
         IN \* virtual_ratio > 0.5, > 0.2, > 0.05 on vc / total
            IF 2 * vc > total \/ a >= 3 THEN "Virtual"
            ELSE IF 5 * vc > total \/ a >= 1 THEN "LikelyVirtual"
            ELSE IF 20 * vc > total THEN "Uncertain"
            ELSE IF total > PHYSICAL_KEYSTROKES THEN "Physical"
            ELSE "LikelyPhysical"

\* update_classification with the cold-start test off by one
update_classification_early(self, now) ==
    [self EXCEPT !.session_classification = classify(self, now, MIN_KEYSTROKES - 1)]

\* update_classification counting every recorded anomaly, whatever its age
update_classification_all_anomalies(self, now) ==
    [self EXCEPT !.session_classification =
        classify(self, IF self.anomalies = <<>> THEN now
                       ELSE self.anomalies[1].timestamp, MIN_KEYSTROKES)]

\* update_classification that keeps a Virtual or LikelyVirtual verdict
update_classification_latched(self, now) ==
    IF self.session_classification \in {"Virtual", "LikelyVirtual"} THEN self
    ELSE [self EXCEPT !.session_classification = classify(self, now, MIN_KEYSTROKES)]

\* VirtualKeyboardTest::update_classification, run at wall-clock time now
update_classification(self, now) ==
    [self EXCEPT !.session_classification = classify(self, now, MIN_KEYSTROKES)]

\* process_event without the `event_type != Press` return: releases count too
Virtual_process_event_counts_release(self, event_type, timestamp, now) ==
    LET s1 == [self EXCEPT !.start_time = IF @ = Nothing THEN Some(now) ELSE @,
                           !.total_keystrokes = @ + 1]
        interval_ms == IF s1.last_keystroke = Nothing THEN Nothing
                       ELSE Some(timestamp - s1.last_keystroke[1])
        s2 == [s1 EXCEPT !.last_interval_ms = interval_ms]
        t == IF interval_ms # Nothing
             THEN analyze_timing(s2, interval_ms[1], timestamp)
             ELSE [self |-> s2, is_suspicious |-> FALSE]
        b == detect_burst(t.self, timestamp)
        is_virtual == t.is_suspicious \/ b.is_suspicious
        s3 == [b.self EXCEPT !.virtual_count = IF is_virtual THEN @ + 1 ELSE @,
                             !.last_keystroke = Some(timestamp)]
    IN update_classification(s3, now)

\* process_event with one count per analysis that flags the press
Virtual_process_event_counts_each_flag(self, event_type, timestamp, now) ==
    IF event_type # "Press" THEN self
    ELSE LET s1 == [self EXCEPT !.start_time = IF @ = Nothing THEN Some(now) ELSE @,
                                !.total_keystrokes = @ + 1]
             interval_ms == IF s1.last_keystroke = Nothing THEN Nothing
                            ELSE Some(timestamp - s1.last_keystroke[1])
             s2 == [s1 EXCEPT !.last_interval_ms = interval_ms]
             t == IF interval_ms # Nothing
                  THEN analyze_timing(s2, interval_ms[1], timestamp)
                  ELSE [self |-> s2, is_suspicious |-> FALSE]
             b == detect_burst(t.self, timestamp)
             s3 == [b.self EXCEPT !.virtual_count = @ + (IF t.is_suspicious THEN 1 ELSE 0)
                                                      + (IF b.is_suspicious THEN 1 ELSE 0),
                                  !.last_keystroke = Some(timestamp)]
         IN update_classification(s3, now)

\* VirtualKeyboardTest::process_event for an event with this type and
\* timestamp, run at wall-clock time now
Virtual_process_event(self, event_type, timestamp, now) ==
    IF event_type # "Press" THEN self
    ELSE LET s1 == [self EXCEPT !.start_time = IF @ = Nothing THEN Some(now) ELSE @,
                                !.total_keystrokes = @ + 1]
             interval_ms == IF s1.last_keystroke = Nothing THEN Nothing
                            ELSE Some(timestamp - s1.last_keystroke[1])
             s2 == [s1 EXCEPT !.last_interval_ms = interval_ms]
             t == IF interval_ms # Nothing
                  THEN analyze_timing(s2, interval_ms[1], timestamp)
                  ELSE [self |-> s2, is_suspicious |-> FALSE]
             b == detect_burst(t.self, timestamp)
             is_virtual == t.is_suspicious \/ b.is_suspicious
             s3 == [b.self EXCEPT !.virtual_count = IF is_virtual THEN @ + 1 ELSE @,
                                  !.last_keystroke = Some(timestamp)]
         IN update_classification(s3, now)

\* `key_info.label.to_lowercase().chars().next()` for the keys of the model;
\* a key outside KEYMAP has the label "?"
key_char(key) ==
    CASE key = 1 -> "e" [] key = 2 -> "1" [] key = 29 -> "c" [] key = 30 -> "a"
      [] key = 31 -> "s" [] key = 44 -> "z" [] key = 45 -> "x" [] key = 46 -> "c"
      [] key \in {59, 60} -> "f" [] OTHER -> "?"

\* VirtualKeyboardTest::check_virtual_key_received
check_virtual_key_received(self, key) ==
    IF \E i \in 1..Len(self.expected_virtual_keys) :
           self.expected_virtual_keys[i] = key_char(key)
    THEN [self EXCEPT !.virtual_keys_received = @ + 1]
    ELSE self

\* VirtualKeyboardTest::update_diagnostic, run at wall clock now
update_diagnostic(self, now) ==
    IF ~self.test_mode_active THEN self
    ELSE IF self.virtual_send_time # Nothing /\ now - self.virtual_send_time[1] < 500
         THEN self
         ELSE LET virtual_worked == self.virtual_keys_received > 0
                  physical_worked == self.physical_keys_received > 0
              IN [self EXCEPT !.diagnostic =
                                  IF physical_worked
                                  THEN IF virtual_worked THEN "KeyboardOk" ELSE "ApiIssue"
                                  ELSE IF virtual_worked THEN "HardwareIssue"
                                                         ELSE "SoftwareIssue",
                              !.test_mode_active = FALSE]

\* `if self.test_mode_active { .. }` of VirtualKeyboardTest::process_event
track_test_mode(self, key, now) ==
    IF self.test_mode_active
    THEN update_diagnostic(
             check_virtual_key_received(
                 [self EXCEPT !.physical_keys_received = @ + 1], key), now)
    ELSE self

\* VirtualKeyboardTest::process_event on a whole KeyEvent: the test-mode
\* bookkeeping and the detection touch disjoint fields
VirtualKeyboardTest_process_event(self, event, now) ==
    Virtual_process_event(IF event.event_type = "Press"
                          THEN track_test_mode(self, event.key, now) ELSE self,
                          event.event_type, event.timestamp, now)

\* VirtualKeyboardTest::request_virtual_test
request_virtual_test(self) == [self EXCEPT !.pending_send = TRUE]

\* VirtualKeyboardTest::execute_virtual_send at wall clock now; sent is what
\* send_test_sequence answered
execute_virtual_send(self, sent, now) ==
    LET s1 == [self EXCEPT !.pending_send = FALSE,
                           !.test_mode_active = TRUE,
                           !.expected_virtual_keys = <<>>,
                           !.virtual_send_time = Some(now),
                           !.physical_keys_received = 0,
                           !.virtual_keys_received = 0]
    IN IF sent = "Ok"
       THEN [s1 EXCEPT !.expected_virtual_keys = <<"z", "x", "c">>]
       ELSE [s1 EXCEPT !.diagnostic = "ApiIssue"]

\* the 'v' key of the main loop
RequestVirtualTest ==
    /\ ~vtest.pending_send
    /\ ~vtest.test_mode_active
    /\ Len(handed) < MaxDiag
    /\ vtest' = request_virtual_test(vtest)
    /\ vprev' = vtest'
    /\ UNCHANGED <<vnow, vpath, acqVars, remapVars, openVars, appVars>>

\* `if app.virtual_test.has_pending_send() { execute_virtual_send() }` of the
\* main loop; a successful send_test_sequence sleeps 3 * (10 + 20 + 100) ms
ExecuteVirtualSend(sent) ==
    /\ vtest.pending_send
    /\ vtest' = execute_virtual_send(vtest, sent, vnow)
    /\ vprev' = vtest'
    /\ vnow' = vnow + (IF sent = "Ok" THEN 390 ELSE 0)
    /\ UNCHANGED <<vpath, acqVars, remapVars, openVars, appVars>>

\* the keys that reach the classifier during a diagnostic: the injected z, and
\* the a and z of the keyboard
DiagKeys == {[key |-> 44, origin |-> "virtual"], [key |-> 30, origin |-> "physical"],
             [key |-> 44, origin |-> "physical"]}

\* the classifier is handed an event dt ms after the previous step; handed
\* keeps the event with where it came from, which no KeyEvent carries
DiagEvent(k, event_type, dt) ==
    /\ Len(handed) < MaxDiag
    /\ LET now == vnow + dt
           event == KeyEvent(k.key, event_type, now, 1)
       IN /\ vtest' = VirtualKeyboardTest_process_event(vtest, event, now)
          /\ vnow' = now
          /\ vprev' = vtest
          /\ handed' = Append(handed, [key |-> event.key, event_type |-> event_type,
                                       timestamp |-> now, delta_us |-> 1,
                                       origin |-> k.origin])
    /\ UNCHANGED <<vpath, app, plog, recorded, counted, kobs, acqVars, remapVars, openVars>>

DiagNext ==
    \/ RequestVirtualTest
    \/ \E sent \in {"Ok", "Err"} : ExecuteVirtualSend(sent)
    \/ \E k \in DiagKeys : \E event_type \in {"Press", "Release"} : \E dt \in {100, 500} :
          DiagEvent(k, event_type, dt)

\* the classifier is handed a KeyEvent dt ms after the previous press
ClassifierEvent(event_type, dt) ==
    /\ vtest.total_keystrokes < MaxPresses
    /\ LET timestamp == vnow + dt
       IN /\ vtest' = Virtual_process_event(vtest, event_type, timestamp, timestamp)
          /\ vnow' = IF event_type = "Press" THEN timestamp ELSE vnow
          /\ vprev' = IF event_type = "Press" THEN vtest ELSE vprev
          /\ vpath' = vpath
    /\ UNCHANGED <<acqVars, remapVars, openVars, appVars>>

\* VirtualKeyboardTest::reset; the clock origin is moved to the reset
Virtual_reset ==
    /\ vtest' = VirtualKeyboardTest_new
    /\ vnow' = 0
    /\ vprev' = VirtualKeyboardTest_new
    /\ vpath' = vpath
    /\ UNCHANGED <<acqVars, remapVars, openVars, appVars>>

ClassifierNext ==
    \/ \E event_type \in {"Press", "Release"} : \E dt \in Deltas :
          ClassifierEvent(event_type, dt)
    \/ Virtual_reset

\* a long session: the first MaxFree presses arrive after any of Deltas, the
\* later ones after 100 or 6000 ms and never after the same interval twice
LongDeltas ==
    IF vtest.total_keystrokes < MaxFree THEN Deltas
    ELSE {d \in {100, 6000} : vtest.last_interval_ms # Some(d)}

\* the classifier is handed a Press dt ms after the previous press
ClassifierLongPress(dt) ==
    /\ vtest.total_keystrokes < MaxLong
    /\ LET timestamp == vnow + dt
       IN /\ vtest' = Virtual_process_event(vtest, "Press", timestamp, timestamp)
          /\ vnow' = timestamp
          /\ vprev' = vtest
          /\ vpath' = vpath
    /\ UNCHANGED <<acqVars, remapVars, openVars, appVars>>

ClassifierLongNext ==
    \/ \E dt \in LongDeltas : ClassifierLongPress(dt)
    \/ Virtual_reset

\* a session that is followed through its classifications: presses arrive
\* after 100 or 6000 ms, never after the same interval twice; up to three
\* presses right after the cold start, and any press from the
\* FastAgain-th on, may instead arrive 10 ms after the one before
FastAgain == 60

StickyDeltas ==
    LET total == vtest.total_keystrokes
    IN {d \in {100, 6000} : vtest.last_interval_ms # Some(d)}
       \cup (IF \/ total >= MIN_KEYSTROKES /\ total < MIN_KEYSTROKES + 6
                    /\ vtest.virtual_count < 3
                \/ total >= FastAgain
             THEN {10} ELSE {})

\* the classifier is handed a Press dt ms after the previous press
ClassifierStickyPress(dt) ==
    /\ vtest.total_keystrokes < MaxSticky
    /\ LET timestamp == vnow + dt
           v == Virtual_process_event(vtest, "Press", timestamp, timestamp)
       IN /\ vtest' = v
          /\ vnow' = timestamp
          /\ vprev' = vtest
          /\ vpath' = IF v.session_classification # vtest.session_classification
                      THEN Append(vpath, v.session_classification) ELSE vpath
    /\ UNCHANGED <<acqVars, remapVars, openVars, appVars>>

ClassifierStickyNext == \E dt \in StickyDeltas : ClassifierStickyPress(dt)

\* time between two presses of a burst, in ms
BurstDeltas == {5, 25, 100}

\* the classifier is handed a Press dt ms after the previous press
ClassifierBurstPress(dt) ==
    /\ vtest.total_keystrokes < MaxBurst
    /\ LET timestamp == vnow + dt
       IN /\ vtest' = Virtual_process_event(vtest, "Press", timestamp, timestamp)
          /\ vnow' = timestamp
          /\ vprev' = vtest
          /\ vpath' = vpath
    /\ UNCHANGED <<acqVars, remapVars, openVars, appVars>>

ClassifierBurstNext ==
    \/ \E dt \in BurstDeltas : ClassifierBurstPress(dt)
    \/ Virtual_reset

(***************************************************************************)
(* Device loss and device opening: src/keyboard/evdev_listener.rs          *)
(***************************************************************************)
\* the device behind file d disappears: every later read of it is Err(_)
DeviceLost(d) ==
    /\ d \notin lost
    /\ lost' = lost \cup {d}
    /\ UNCHANGED <<evdev, channel, alog, tick, remapVars, clsVars, openVars, appVars>>

\* EvdevListener::poll of an enabled listener, called without end by the main
\* loop; the clock, which poll() only uses to stamp the events, is kept
\* modulo MaxPolls
LossPoll(batch) ==
    /\ evdev.enabled
    /\ \A i \in 1..Len(batch) : batch[i].dev \notin lost
    /\ LET now == (evdev.last_poll % MaxPolls) + 1
           r == poll_devices([pressed_keys |-> evdev.pressed_keys,
                              sent |-> <<>>, log |-> <<>>],
                             batch, now, 1)
       IN /\ evdev' = [evdev EXCEPT !.pressed_keys = r.pressed_keys,
                                    !.last_poll = now]
          /\ channel' = channel \o r.sent
          /\ alog' = alog \o r.log
    /\ UNCHANGED <<lost, tick, remapVars, clsVars, openVars, appVars>>

\* one poll() of the main loop, reading at most one record
PollStep ==
    \E n \in 0..(IF Len(alog) < MaxFed THEN 1 ELSE 0) :
        \E batch \in Batches(n) : LossPoll(batch)

AcqLossNext ==
    \/ PollStep
    \/ \E d \in Devices : DeviceLost(d)

\* how the read loop of one device ends in a poll(): `Ok(_) => break` (short
\* read), `Err(WouldBlock) => break`, `Err(_) => break`
StopCauses == {"Short", "WouldBlock", "Error"}

\* the read loop with a read error ending the whole poll()
RECURSIVE poll_tick_abort_on_error(_, _, _, _, _, _)
poll_tick_abort_on_error(acc, d, batch, stops, now, delta_us) ==
    IF d > NumDevices THEN acc
    ELSE LET own == SelectSeq(batch, LAMBDA b : b.dev = d)
             r == poll_devices([pressed_keys |-> acc.pressed_keys,
                                sent |-> acc.sent, log |-> acc.log],
                               own, now, delta_us)
             a == [pressed_keys |-> r.pressed_keys, sent |-> r.sent, log |-> r.log,
                   visits |-> Append(acc.visits,
                                     [dev |-> d, stop |-> stops[d],
                                      pressed_keys |-> r.pressed_keys])]
         IN IF stops[d] = "Error" THEN a
            ELSE poll_tick_abort_on_error(a, d + 1, batch, stops, now, delta_us)

\* `for device in &mut self.devices { loop { match device.read(..) { .. } } }`
\* from device d on: the complete records device d delivers are processed,
\* then its read answers stops[d], which breaks the inner loop only.
\* acc = [pressed_keys, sent, log, visits]
RECURSIVE poll_tick(_, _, _, _, _, _)
poll_tick(acc, d, batch, stops, now, delta_us) ==
    IF d > NumDevices THEN acc
    ELSE LET own == SelectSeq(batch, LAMBDA b : b.dev = d)
             r == poll_devices([pressed_keys |-> acc.pressed_keys,
                                sent |-> acc.sent, log |-> acc.log],
                               own, now, delta_us)
         IN poll_tick([pressed_keys |-> r.pressed_keys, sent |-> r.sent, log |-> r.log,
                       visits |-> Append(acc.visits,
                                         [dev |-> d, stop |-> stops[d],
                                          pressed_keys |-> r.pressed_keys])],
                      d + 1, batch, stops, now, delta_us)

\* the records of the devices whose read outcomes are followed: press and
\* release of one code
IoRecords == [event_type : {EV_KEY}, code : {30}, value : {0, 1}]

IoBatches(n) ==
    {[i \in 1..n |-> [dev |-> d, rec |-> rec]] : d \in Devices, rec \in IoRecords}

\* EvdevListener::poll of an enabled listener, with the outcome of the last
\* read of every device
PollIo(batch, stops) ==
    /\ evdev.enabled
    /\ evdev.last_poll < MaxPolls
    /\ LET now == evdev.last_poll + 1
           delta_us == now - evdev.last_poll
           r == poll_tick([pressed_keys |-> evdev.pressed_keys, sent |-> <<>>,
                           log |-> <<>>, visits |-> <<>>],
                          1, batch, stops, now, delta_us)
       IN /\ evdev' = [evdev EXCEPT !.pressed_keys = r.pressed_keys,
                                    !.last_poll = now]
          /\ channel' = channel \o r.sent
          /\ alog' = alog \o r.log
          /\ tick' = [op |-> "poll", visits |-> r.visits, log |-> r.log,
                      before |-> evdev.pressed_keys, channel_before |-> channel,
                      event_count |-> Len(r.sent),
                      prev |-> IF tick.op = "poll" THEN tick.visits ELSE <<>>]
    /\ UNCHANGED <<lost, remapVars, clsVars, openVars, appVars>>

\* the read outcomes of one poll(): the reads of all devices but d end with
\* WouldBlock (no more data), the read of d ends with cause
OneStop(d, cause) == [x \in Devices |-> IF x = d THEN cause ELSE "WouldBlock"]

AcqIoNext ==
    \E n \in 0..(IF Len(alog) < MaxFed THEN 1 ELSE 0) :
        \E batch \in IoBatches(n) : \E d \in Devices : \E cause \in StopCauses :
            PollIo(batch, OneStop(d, cause))

\* what File::open answers for one candidate path
OpenOutcomes == {"Ok", "PermissionDenied", "NotFound"}

\* the `for path in &device_paths` loop of EvdevListener::new, from path i on;
\* devices are the indices of the paths opened so far
RECURSIVE open_devices(_, _, _)
open_devices(outcomes, i, devices) ==
    IF i > Len(outcomes) THEN [devices |-> devices, err |-> None]
    ELSE IF outcomes[i] = "Ok"
         THEN open_devices(outcomes, i + 1, Append(devices, i))
         ELSE IF outcomes[i] = "PermissionDenied"
              THEN open_devices(outcomes, i + 1, devices)
              ELSE [devices |-> devices, err |-> "Io"]

\* EvdevListener::new for device_paths whose opens answer outcomes
EvdevListener_new_result(outcomes) ==
    LET o == open_devices(outcomes, 1, <<>>)
    IN IF o.err # None
       THEN [ok |-> FALSE, err |-> o.err, devices |-> <<>>]
       ELSE IF o.devices = <<>>
            THEN [ok |-> FALSE, err |-> "PermissionDenied", devices |-> <<>>]
            ELSE [ok |-> TRUE, err |-> None, devices |-> o.devices]

\* EvdevListener::new is called; find_keyboard_devices returned one path per
\* entry of outcomes (it never returns an empty list)
New(outcomes) ==
    /\ opening' = [op |-> "new", outcomes |-> outcomes,
                   result |-> EvdevListener_new_result(outcomes)]
    /\ UNCHANGED <<acqVars, remapVars, clsVars, appVars>>

\* what the file system answers about /dev/input: Path::exists is false
\* ("Missing"), or it is true and fs::read_dir fails ("Unreadable") or lists
\* the entries ("Listed")
DirStates == {"Missing", "Unreadable", "Listed"}

\* a directory entry, by what find_keyboard_devices asks of it: whether its
\* name starts with "event" and whether is_keyboard_device accepts it
DirEntries == [event : BOOLEAN, keyboard : BOOLEAN]

\* find_keyboard_devices: the positions of the entries it returns
find_keyboard_devices(dir, entries) ==
    IF dir = "Missing"
    THEN [ok |-> FALSE, err |-> "EnumerationFailed", keyboards |-> <<>>]
    ELSE LET listed == IF dir = "Listed" THEN entries ELSE <<>>
             keyboards == SelectSeq([i \in 1..Len(listed) |-> i],
                                    LAMBDA i : listed[i].event /\ listed[i].keyboard)
         IN IF keyboards = <<>>
            THEN [ok |-> FALSE, err |-> "NoDevices", keyboards |-> <<>>]
            ELSE [ok |-> TRUE, err |-> None, keyboards |-> keyboards]

\* find_keyboard_devices is called on a directory in state dir that holds
\* entries (none unless the directory exists)
Discover(dir, entries) ==
    /\ dir = "Missing" => entries = <<>>
    /\ opening' = [op |-> "find", dir |-> dir, entries |-> entries,
                   result |-> find_keyboard_devices(dir, entries)]
    /\ UNCHANGED <<acqVars, remapVars, clsVars, appVars>>

OpenNext ==
    \/ \E n \in 1..MaxCandidates : \E outcomes \in [1..n -> OpenOutcomes] : New(outcomes)
    \/ \E dir \in DirStates : \E n \in 0..MaxEntries :
           \E entries \in [1..n -> DirEntries] : Discover(dir, entries)

(***************************************************************************)
(* Consuming side: src/main.rs (main loop) and src/ui/app.rs (App)         *)
(***************************************************************************)
AppState == {"Running", "Paused", "Quitting"}

\* RemapStats::new
RemapStats_new ==
    [total_processed |-> 0, remapped_count |-> 0, fn_combo_count |-> 0,
     unknown_captured |-> 0, blocked_count |-> 0]

\* record with every result that is not Remapped or FnCombo counted as blocked
RemapStats_record_blocks_rest(stats, result) ==
    [stats EXCEPT !.total_processed = @ + 1,
                  !.remapped_count = IF result.kind = "Remapped" THEN @ + 1 ELSE @,
                  !.fn_combo_count = IF result.kind = "FnCombo" THEN @ + 1 ELSE @,
                  !.blocked_count = IF result.kind \notin {"Remapped", "FnCombo"}
                                    THEN @ + 1 ELSE @]

\* RemapStats::record
RemapStats_record(stats, result) ==
    [stats EXCEPT !.total_processed = @ + 1,
                  !.remapped_count = IF result.kind = "Remapped" THEN @ + 1 ELSE @,
                  !.fn_combo_count = IF result.kind = "FnCombo" THEN @ + 1 ELSE @,
                  !.blocked_count = IF result.kind = "Blocked" THEN @ + 1 ELSE @]

\* KeyState::default, without the timing fields
KeyState_default == [is_pressed |-> FALSE, press_count |-> 0]

\* KeyboardState::new, without global_intervals_us
KeyboardState_new ==
    [keys |-> <<>>, pressed_keys |-> <<>>, max_simultaneous |-> 0, total_events |-> 0]

\* process_event with every press pushed on pressed_keys
KeyboardState_process_event_push_always(self, event) ==
    LET key_state == IF event.key \in DOMAIN self.keys THEN self.keys[event.key]
                     ELSE KeyState_default
    IN IF event.event_type = "Press"
       THEN LET pressed_keys == Append(self.pressed_keys, event.key)
            IN [keys |-> MapInsert(self.keys, event.key,
                                   [is_pressed |-> TRUE,
                                    press_count |-> key_state.press_count + 1]),
                pressed_keys |-> pressed_keys,
                max_simultaneous |-> IF Len(pressed_keys) > self.max_simultaneous
                                     THEN Len(pressed_keys) ELSE self.max_simultaneous,
                total_events |-> self.total_events + 1]
       ELSE [keys |-> MapInsert(self.keys, event.key,
                                [key_state EXCEPT !.is_pressed = FALSE]),
             pressed_keys |-> SelectSeq(self.pressed_keys, LAMBDA k : k # event.key),
             max_simultaneous |-> self.max_simultaneous,
             total_events |-> self.total_events + 1]

\* KeyboardState::process_event
KeyboardState_process_event(self, event) ==
    LET key_state == IF event.key \in DOMAIN self.keys THEN self.keys[event.key]
                     ELSE KeyState_default
    IN IF event.event_type = "Press"
       THEN LET contains == \E i \in 1..Len(self.pressed_keys) :
                                self.pressed_keys[i] = event.key
                pressed_keys == IF ~contains THEN Append(self.pressed_keys, event.key)
                                ELSE self.pressed_keys
            IN [keys |-> MapInsert(self.keys, event.key,
                                   [is_pressed |-> TRUE,
                                    press_count |-> key_state.press_count + 1]),
                pressed_keys |-> pressed_keys,
                max_simultaneous |-> IF Len(pressed_keys) > self.max_simultaneous
                                     THEN Len(pressed_keys) ELSE self.max_simultaneous,
                total_events |-> self.total_events + 1]
       ELSE [keys |-> MapInsert(self.keys, event.key,
                                [key_state EXCEPT !.is_pressed = FALSE]),
             pressed_keys |-> SelectSeq(self.pressed_keys, LAMBDA k : k # event.key),
             max_simultaneous |-> self.max_simultaneous,
             total_events |-> self.total_events + 1]

\* KeyboardState::current_rollover
current_rollover(self) == Len(self.pressed_keys)

\* KeyboardState::max_rollover
max_rollover(self) == self.max_simultaneous

\* App::new with Config::default(): state, event counter, keyboard_state and
\* the stats of oem_test; the classifier is vtest and the remapper of oem_test
\* is remapper
\* OemKeyTest::record_event on detected_unknown: presses of keys that
\* get_key_info names "Unknown" (the keys outside KEYMAP) are counted
record_event(detected_unknown, event) ==
    IF event.key \notin KEYMAP /\ event.event_type = "Press"
    THEN MapInsert(detected_unknown, event.key,
                   (IF event.key \in DOMAIN detected_unknown
                    THEN detected_unknown[event.key] ELSE 0) + 1)
    ELSE detected_unknown

\* `detected_unknown.iter().max_by_key(|(_, &count)| count)`: the scancodes
\* it can return; among several of the highest count the iteration order of
\* the HashMap decides
last_unknown_scancode(detected_unknown) ==
    {k \in DOMAIN detected_unknown :
        \A x \in DOMAIN detected_unknown : detected_unknown[x] <= detected_unknown[k]}

\* StickinessTest::new: held_keys, each key with the time of its press
StickinessTest_new == [held_keys |-> <<>>]

\* StickinessTest::process_event
StickinessTest_process_event(self, event) ==
    IF event.event_type = "Press"
    THEN [self EXCEPT !.held_keys = MapInsert(@, event.key, event.timestamp)]
    ELSE [self EXCEPT !.held_keys = MapRemove(@, event.key)]

\* keymap::MODIFIER_KEYS, each with the ModifierState field update_modifiers
\* sets for it
MODIFIER_KEYS ==
    (29 :> "ctrl") @@ (97 :> "ctrl") @@ (42 :> "shift") @@ (54 :> "shift")
    @@ (56 :> "alt") @@ (100 :> "alt") @@ (125 :> "super_key") @@ (126 :> "super_key")

\* shortcut_history keeps the last 50 shortcuts
SHORTCUT_HISTORY == 50

\* ShortcutTest::new
ShortcutTest_new ==
    [modifiers |-> [ctrl |-> FALSE, alt |-> FALSE, shift |-> FALSE, super_key |-> FALSE],
     pressed_keys |-> {},
     shortcut_history |-> <<>>]

\* ModifierState::any_held
any_held(modifiers) ==
    modifiers.ctrl \/ modifiers.alt \/ modifiers.shift \/ modifiers.super_key

\* ShortcutTest::record_shortcut; the combo string is the prefix of the held
\* modifiers followed by the name of the key
record_shortcut(self, key, timestamp) ==
    IF ~any_held(self.modifiers) THEN self
    ELSE LET event == [combo |-> [modifiers |-> self.modifiers, key |-> key],
                       timestamp |-> timestamp]
             history == Append(self.shortcut_history, event)
         IN [self EXCEPT !.shortcut_history =
                IF Len(history) > SHORTCUT_HISTORY THEN Tail(history) ELSE history]

\* ShortcutTest::recent_shortcuts: the last count shortcuts, newest first
recent_shortcuts(self, count) ==
    LET h == self.shortcut_history
        n == IF count < Len(h) THEN count ELSE Len(h)
    IN [i \in 1..n |-> h[Len(h) + 1 - i]]

\* ShortcutTest::process_event
ShortcutTest_process_event(self, event) ==
    LET is_modifier == event.key \in DOMAIN MODIFIER_KEYS
    IN IF event.event_type = "Press"
       THEN IF is_modifier
            THEN [self EXCEPT !.modifiers[MODIFIER_KEYS[event.key]] = TRUE]
            ELSE LET r == IF any_held(self.modifiers)
                          THEN record_shortcut(self, event.key, event.timestamp)
                          ELSE self
                 IN [r EXCEPT !.pressed_keys = @ \cup {event.key}]
       ELSE IF is_modifier
            THEN [self EXCEPT !.modifiers[MODIFIER_KEYS[event.key]] = FALSE]
            ELSE [self EXCEPT !.pressed_keys = @ \ {event.key}]

\* the overlay fields last_shortcut_combo and last_shortcut_time after
\* App::process_event has run shortcut_test from before to after:
\* `if shortcuts_after.len() > shortcuts_before || shortcuts_before == 0`
overlay(before, after, last_shortcut, now) ==
    LET shortcuts_before == Len(recent_shortcuts(before, 1))
        shortcuts_after == recent_shortcuts(after, 1)
    IN IF (Len(shortcuts_after) > shortcuts_before \/ shortcuts_before = 0)
          /\ shortcuts_after # <<>>
       THEN Some([combo |-> shortcuts_after[1].combo, time |-> now])
       ELSE last_shortcut

App_new ==
    [state |-> "Running", total_events |-> 0,
     keyboard_state |-> KeyboardState_new, stats |-> RemapStats_new,
     detected_unknown |-> <<>>,
     stickiness_test |-> StickinessTest_new,
     shortcut_test |-> ShortcutTest_new,
     last_shortcut |-> Nothing]

\* process_event without the test of the state
App_process_event_while_paused(c, event, now) ==
    LET h == [c EXCEPT !.handed = Append(@, event)]
        v == VirtualKeyboardTest_process_event(c.vtest, event, now)
        r == process_key(c.remapper, event.key, event.event_type = "Press", now)
    IN [h EXCEPT !.app.total_events = @ + 1,
                 !.app.keyboard_state = KeyboardState_process_event(@, event),
                 !.app.stickiness_test = StickinessTest_process_event(@, event),
                 !.app.shortcut_test = ShortcutTest_process_event(@, event),
                 !.app.last_shortcut =
                     overlay(c.app.shortcut_test,
                             ShortcutTest_process_event(c.app.shortcut_test, event), @, now),
                 !.vtest = v,
                 !.remapper = r.self,
                 !.app.stats = RemapStats_record(@, r.result),
                 !.app.detected_unknown = record_event(@, event),
                 !.plog = @ \o <<[consumer |-> "virtual_test", event |-> event,
                                  result |-> [kind |-> None]],
                                 [consumer |-> "oem_test", event |-> event,
                                  result |-> r.result]>>]

\* App::process_event on c = [app, vtest, remapper, handed, plog], run at wall
\* clock now.  virtual_test.process_event runs before oem_test.process_event
\* and both are given the event as the listener sent it.
App_process_event(c, event, now) ==
    LET h == [c EXCEPT !.handed = Append(@, event)]
    IN IF c.app.state # "Running" THEN h
       ELSE LET v == VirtualKeyboardTest_process_event(c.vtest, event, now)
                r == process_key(c.remapper, event.key, event.event_type = "Press", now)
            IN [h EXCEPT !.app.total_events = @ + 1,
                         !.app.keyboard_state = KeyboardState_process_event(@, event),
                         !.app.stickiness_test = StickinessTest_process_event(@, event),
                         !.app.shortcut_test = ShortcutTest_process_event(@, event),
                         !.app.last_shortcut =
                             overlay(c.app.shortcut_test,
                                     ShortcutTest_process_event(c.app.shortcut_test, event), @, now),
                         !.vtest = v,
                         !.remapper = r.self,
                         !.app.stats = RemapStats_record(@, r.result),
                         !.app.detected_unknown = record_event(@, event),
                         !.plog = @ \o <<[consumer |-> "virtual_test", event |-> event,
                                          result |-> [kind |-> None]],
                                         [consumer |-> "oem_test", event |-> event,
                                          result |-> r.result]>>]

\* the drain loop with the newest event taken first
RECURSIVE drain_newest_first(_, _, _)
drain_newest_first(c, ch, now) ==
    IF ch = <<>> THEN c
    ELSE drain_newest_first(App_process_event(c, ch[Len(ch)], now),
                            SubSeq(ch, 1, Len(ch) - 1), now)

\* `while let Ok(key_event) = event_rx.try_recv() { app.process_event(..) }`
RECURSIVE drain(_, _, _)
drain(c, ch, now) ==
    IF ch = <<>> THEN c
    ELSE drain(App_process_event(c, Head(ch), now), Tail(ch), now)

\* n records buffered by device d
DeviceBatches(d, n) ==
    {[i \in 1..n |-> [dev |-> d, rec |-> recs[i]]] : recs \in [1..n -> InputEvent]}

\* per key, the type of its latest event once events have followed latest
LatestTypes(latest, events) ==
    [k \in DOMAIN latest \cup {events[i].key : i \in 1..Len(events)} |->
        LET of_k == {i \in 1..Len(events) : events[i].key = k}
        IN IF of_k = {} THEN latest[k]
           ELSE events[CHOOSE i \in of_k : \A j \in of_k : j <= i].event_type]

\* one iteration of the main loop up to the terminal draw, dt after the
\* previous one: evdev.poll(), then the channel is drained into
\* App::process_event
Iterate(batch, dt) ==
    /\ app.state # "Quitting"
    /\ \A i \in 1..Len(batch) : batch[i].dev \notin lost
    /\ LET now == evdev.last_poll + dt
           delta_us == now - evdev.last_poll
           r == IF evdev.enabled
                THEN poll_devices([pressed_keys |-> evdev.pressed_keys,
                                   sent |-> <<>>, log |-> <<>>],
                                  batch, now, delta_us)
                ELSE [pressed_keys |-> evdev.pressed_keys, sent |-> <<>>, log |-> <<>>]
           c == drain([app |-> app, vtest |-> vtest, remapper |-> remapper,
                       handed |-> handed, plog |-> plog],
                      channel \o r.sent, now)
       IN /\ evdev' = [evdev EXCEPT !.pressed_keys = r.pressed_keys,
                                    !.last_poll = IF evdev.enabled THEN now ELSE @]
          /\ channel' = <<>>
          /\ alog' = alog \o r.log
          /\ app' = c.app
          /\ vtest' = c.vtest
          /\ vnow' = now
          /\ vprev' = vtest
          /\ vpath' = vpath
          /\ remapper' = c.remapper
          /\ handed' = c.handed
          /\ plog' = c.plog
          /\ counted' = IF app.state = "Running"
                        THEN counted + Len(channel \o r.sent) ELSE counted
          /\ kobs' = IF app.state = "Running"
                     THEN LatestTypes(kobs, channel \o r.sent) ELSE kobs
    /\ UNCHANGED <<lost, tick, rlast, down, nops, redit, cobs, recorded, openVars>>

\* one iteration of the main loop up to the terminal draw, one poll after the
\* previous one
MainLoop(batch) == evdev.last_poll < MaxPolls /\ Iterate(batch, 1)

\* the refresh interval of the main loop at the default 60 Hz, in ms (rounded up)
TICK_MS == 17

\* when, after the previous poll, the kernel stamped a record (tv_sec, tv_usec; in ms)
Offsets == {1, 16}

\* n key records of device 1 with the kernel time of each, in the order the
\* kernel queued them, all stamped after the previous poll and by now
TimedBatches(n, last, now) ==
    {[i \in 1..n |-> [dev |-> 1,
                       rec |-> [event_type |-> EV_KEY, code |-> codes[i],
                                value |-> values[i], time |-> last + offs[i]]]] :
        codes \in [1..n -> AcqCodes], values \in [1..n -> {0, 1}],
        offs \in {o \in [1..n -> Offsets] :
                    /\ \A i \in 1..n : last + o[i] <= now
                    /\ \A i \in 1..n : \A j \in 1..n : i < j => o[i] <= o[j]}}

\* the main loop with the clock in ms: an iteration follows the previous one
\* after a full refresh interval
TimedNext ==
    \E dt \in {TICK_MS} : \E n \in 0..(MaxFed - Len(alog)) :
        \E batch \in TimedBatches(n, evdev.last_poll, evdev.last_poll + dt) :
            evdev.last_poll + dt <= MaxClock /\ Iterate(batch, dt)

\* App::toggle_pause, on the space key
toggle_pause ==
    /\ app.state \in {"Running", "Paused"}
    /\ app' = [app EXCEPT !.state = IF @ = "Running" THEN "Paused" ELSE "Running"]
    /\ UNCHANGED <<handed, plog, recorded, counted, kobs,
                   acqVars, remapVars, clsVars, openVars>>

\* App::quit, on q or Esc; the main loop ends after this iteration
quit ==
    /\ app.state # "Quitting"
    /\ app' = [app EXCEPT !.state = "Quitting"]
    /\ UNCHANGED <<handed, plog, recorded, counted, kobs,
                   acqVars, remapVars, clsVars, openVars>>

\* KeyRemapper::reset_state, on the remapper
KeyRemapper_reset_state(self) == [self EXCEPT !.fn_held = FALSE, !.captured_keys = <<>>]

\* App::reset_all, on the R key: keyboard_state.reset(), virtual_test.reset(),
\* oem_test.reset() (new stats, remapper.reset_state()), total_events = 0
reset_all ==
    /\ app.state # "Quitting"
    /\ app' = [app EXCEPT !.total_events = 0,
                          !.keyboard_state = KeyboardState_new,
                          !.stats = RemapStats_new,
                          !.detected_unknown = <<>>,
                          !.stickiness_test = StickinessTest_new,
                          !.shortcut_test = ShortcutTest_new]
    /\ vtest' = VirtualKeyboardTest_new
    /\ vprev' = VirtualKeyboardTest_new
    /\ vpath' = vpath
    /\ remapper' = KeyRemapper_reset_state(remapper)
    /\ cobs' = <<>>
    /\ counted' = 0
    /\ kobs' = <<>>
    /\ recorded' = <<>>
    /\ UNCHANGED <<handed, plog, vnow, rlast, down, nops, redit, acqVars, openVars>>

\* keys of the events handed to the App one at a time
AppCodes == {30, 31}

\* one event is received from the channel and handed to App::process_event
Submit(event) ==
    /\ app.state # "Quitting"
    /\ Len(handed) < MaxSubmitted
    /\ event.timestamp = Len(handed) + 1
    /\ LET c == App_process_event([app |-> app, vtest |-> vtest, remapper |-> remapper,
                                   handed |-> handed, plog |-> plog],
                                  event, event.timestamp)
       IN /\ app' = c.app
          /\ vtest' = c.vtest
          /\ vnow' = event.timestamp
          /\ vprev' = vtest
          /\ vpath' = vpath
          /\ remapper' = c.remapper
          /\ handed' = c.handed
          /\ plog' = c.plog
    /\ counted' = IF app.state = "Running" THEN counted + 1 ELSE counted
    /\ kobs' = IF app.state = "Running"
               THEN LatestTypes(kobs, <<event>>) ELSE kobs
    /\ UNCHANGED <<rlast, down, nops, redit, cobs, recorded, acqVars, openVars>>

\* the App handed arbitrary press and release events, paused, resumed and
\* reset in between
AppNext ==
    \/ \E key \in AppCodes : \E event_type \in {"Press", "Release"} :
          Submit(KeyEvent(key, event_type, Len(handed) + 1, 1))
    \/ toggle_pause
    \/ reset_all
    \/ quit

\* the unknown scancode whose press was handed to the App last, if any
LastUnknownPressed ==
    LET ps == {i \in 1..Len(handed) :
                  handed[i].key \notin KEYMAP /\ handed[i].event_type = "Press"}
    IN IF ps = {} THEN Nothing
       ELSE Some(handed[CHOOSE i \in ps : \A j \in ps : j <= i].key)

\* App::add_oem_mapping_for_last_unknown, on the a key in the OEM view
add_oem_mapping_for_last_unknown ==
    /\ app.state # "Quitting"
    /\ app.detected_unknown # <<>>
    /\ \E scancode \in last_unknown_scancode(app.detected_unknown) :
          Edit("add_oem_mapping_for_last_unknown", scancode, LastUnknownPressed,
               IF ~is_fn_key(remapper, scancode)
               THEN [remapper EXCEPT !.fn_scancodes = Append(@, scancode)]
               ELSE remapper)

\* keys handed to the App with its OEM key test under watch: a KEYMAP key and
\* two scancodes outside KEYMAP
OemCodes == {30, 998, 999}

\* the App handed events of known and unknown keys, with the unknown-key
\* policy of its remapper set through oem_test.remapper_mut()
OemNext ==
    \/ \E key \in OemCodes : \E event_type \in {"Press", "Release"} :
          Submit(KeyEvent(key, event_type, Len(handed) + 1, 1))
    \/ \E b \in UnknownKeyBehavior : set_unknown_behavior(b)
    \/ add_oem_mapping_for_last_unknown

\* keys handed to the App with its shortcut overlay under watch: left
\* control and two letters
ShortcutCodes == {29, 30, 31}

ShortcutNext ==
    \E key \in ShortcutCodes : \E event_type \in {"Press", "Release"} :
        Submit(KeyEvent(key, event_type, Len(handed) + 1, 1))

\* the results RemapStats::record is given
StatResults ==
    {Unchanged(30), Remapped(2, 1), Blocked(999), FnModifier(TRUE), FnCombo(2, 59)}

\* oem_test.stats.record(&result)
Record(result) ==
    /\ Len(recorded) < MaxRecorded
    /\ app' = [app EXCEPT !.stats = RemapStats_record(@, result)]
    /\ recorded' = Append(recorded, result)
    /\ UNCHANGED <<handed, plog, counted, kobs, acqVars, remapVars, clsVars, openVars>>

\* `self.stats = RemapStats::new()` of OemKeyTest::reset
StatsNew ==
    /\ recorded # <<>>
    /\ app' = [app EXCEPT !.stats = RemapStats_new]
    /\ recorded' = <<>>
    /\ UNCHANGED <<handed, plog, counted, kobs, acqVars, remapVars, clsVars, openVars>>

StatsNext ==
    \/ \E result \in StatResults : Record(result)
    \/ StatsNew

PipelineNext ==
    \/ \E n \in 0..(MaxFed - Len(alog)) : \E batch \in DeviceBatches(1, n) : MainLoop(batch)
    \/ toggle_pause
    \/ quit

Init ==
    /\ evdev = EvdevListener_new
    /\ channel = <<>>
    /\ alog = <<>>
    /\ remapper = KeyRemapper_new
    /\ rlast = [op |-> None]
    /\ down = {}
    /\ nops = 0
    /\ redit = [call |-> None]
    /\ cobs = <<>>
    /\ vtest = VirtualKeyboardTest_new
    /\ vnow = 0
    /\ vprev = VirtualKeyboardTest_new
    /\ vpath = <<VirtualKeyboardTest_new.session_classification>>
    /\ lost = {}
    /\ tick = [op |-> None]
    /\ opening = [op |-> None]
    /\ app = App_new
    /\ handed = <<>>
    /\ plog = <<>>
    /\ recorded = <<>>
    /\ counted = 0
    /\ kobs = <<>>

SpecAcq == Init /\ [][AcqNext]_vars

SpecAcqReset == Init /\ [][AcqResetNext]_vars

SpecRemap == Init /\ [][RemapNext]_vars

SpecRemapEdit == Init /\ [][RemapEditNext]_vars

SpecCapture == Init /\ [][CaptureNext]_vars

SpecStats == Init /\ [][StatsNext]_vars

SpecApp == Init /\ [][AppNext]_vars

SpecSticky == Init /\ [][ClassifierStickyNext]_vars

SpecOem == Init /\ [][OemNext]_vars

SpecShortcut == Init /\ [][ShortcutNext]_vars

SpecRemapKeys == Init /\ [][RemapKeysNext]_vars

SpecClassifier == Init /\ [][ClassifierNext]_vars

SpecClassifierLong == Init /\ [][ClassifierLongNext]_vars

SpecBurst == Init /\ [][ClassifierBurstNext]_vars

SpecAcqLoss == Init /\ [][AcqLossNext]_vars /\ WF_vars(PollStep)

SpecAcqIo == Init /\ [][AcqIoNext]_vars

SpecOpen == Init /\ [][OpenNext]_vars

SpecPipeline == Init /\ [][PipelineNext]_vars

SpecTimed == Init /\ [][TimedNext]_vars

SpecDiag == Init /\ [][DiagNext]_vars
(***************************************************************************)
(* Properties of the Device Acquisitor                                     *)
(***************************************************************************)
\* the values of the key records read so far for code k, in order
RECURSIVE KeyValsOf(_, _)
KeyValsOf(k, log) ==
    IF log = <<>> THEN <<>>
    ELSE (IF Head(log).rec.event_type = EV_KEY /\ Head(log).rec.code = k
          THEN <<Head(log).rec.value>> ELSE <<>>) \o KeyValsOf(k, Tail(log))

\* the types of the KeyEvents sent so far for code k, in order
RECURSIVE EmittedFor(_, _)
EmittedFor(k, ch) ==
    IF ch = <<>> THEN <<>>
    ELSE (IF Head(ch).key = k THEN <<Head(ch).event_type>> ELSE <<>>)
             \o EmittedFor(k, Tail(ch))

IsKey(e, v) == e.rec.event_type = EV_KEY /\ e.rec.value = v

\* C1: a press record for a code already in the pressed set sends no KeyEvent
\* and leaves the pressed set unchanged; press,press sends exactly one Press
\* and press,press,release sends exactly Press then Release.
C1_DuplicatePressDropped ==
    /\ \A i \in 1..Len(alog) :
          (IsKey(alog[i], 1) /\ alog[i].rec.code \in alog[i].before)
              => (alog[i].sent = <<>> /\ alog[i].after = alog[i].before)
    /\ \A k \in AcqCodes :
          /\ KeyValsOf(k, alog) = <<1, 1>> => EmittedFor(k, channel) = <<"Press">>
          /\ KeyValsOf(k, alog) = <<1, 1, 0>>
                => EmittedFor(k, channel) = <<"Press", "Release">>

C1_Witness ==
    \E k \in AcqCodes :
        /\ KeyValsOf(k, alog) = <<1, 1, 0>>
        /\ EmittedFor(k, channel) = <<"Press", "Release">>
        /\ alog[2].sent = <<>>

\* C2: an autorepeat record (value 2) never sends a KeyEvent and never changes
\* the pressed set, whether or not its code is marked pressed.
C2_AutorepeatDiscarded ==
    \A i \in 1..Len(alog) :
        IsKey(alog[i], 2) => (alog[i].sent = <<>> /\ alog[i].after = alog[i].before)

C2_Witness ==
    /\ \E i \in 1..Len(alog) : IsKey(alog[i], 2) /\ alog[i].rec.code \in alog[i].before
    /\ \E i \in 1..Len(alog) : IsKey(alog[i], 2) /\ alog[i].rec.code \notin alog[i].before
    /\ Len(channel) = 1

\* C3: the KeyEvents sent for a code alternate Press, Release, Press, ...
\* beginning with a Press; a release record for a code not marked pressed
\* sends nothing; every accepted transition sends exactly one KeyEvent.
C3_PressReleaseAlternate ==
    /\ \A k \in AcqCodes :
          LET e == EmittedFor(k, channel)
          IN \A i \in 1..Len(e) : e[i] = (IF i % 2 = 1 THEN "Press" ELSE "Release")
    /\ \A i \in 1..Len(alog) :
          LET a == alog[i] IN
          /\ (IsKey(a, 0) /\ a.rec.code \notin a.before)
                => (a.sent = <<>> /\ a.after = a.before)
          /\ (IsKey(a, 1) /\ a.rec.code \notin a.before)
                => /\ Len(a.sent) = 1
                   /\ a.sent[1].key = a.rec.code /\ a.sent[1].event_type = "Press"
                   /\ a.after = a.before \cup {a.rec.code}
          /\ (IsKey(a, 0) /\ a.rec.code \in a.before)
                => /\ Len(a.sent) = 1
                   /\ a.sent[1].key = a.rec.code /\ a.sent[1].event_type = "Release"
                   /\ a.after = a.before \ {a.rec.code}
    /\ Len(channel) = Cardinality({i \in 1..Len(alog) : alog[i].sent # <<>>})

C3_Witness ==
    \E k \in AcqCodes :
        /\ EmittedFor(k, channel) = <<"Press", "Release">>
        /\ \E i \in 1..Len(alog) :
              IsKey(alog[i], 0) /\ alog[i].rec.code = k /\ alog[i].sent = <<>>
(***************************************************************************)
(* Properties of the Key Remapping Engine                                  *)
(***************************************************************************)
\* the last call of process_key: rlast.before is the remapper at the call,
\* rlast.after the remapper it left
Called == rlast.op = "process_key"

\* the FN+combo rule applies to the call rlast
ComboApplies ==
    /\ rlast.before.fn_held /\ rlast.pressed /\ rlast.before.fn_mode # "Disabled"
    /\ rlast.key \in DOMAIN rlast.before.fn_combos

\* the direct mapping rule applies to the call rlast
MappingApplies == rlast.before.enabled /\ rlast.key \in DOMAIN rlast.before.mappings

\* C4: process_key returns FnCombo only when, at the call, FN is held, the
\* event is a press, the mode is not Disabled and the code has a combo; a
\* release of the combo key while FN is held never returns FnCombo.
C4_ComboGating ==
    (Called /\ rlast.result.kind = "FnCombo")
        => /\ ComboApplies
           /\ rlast.result = FnCombo(rlast.key, rlast.before.fn_combos[rlast.key])

C4_Witness ==
    /\ Called /\ ~rlast.pressed /\ rlast.before.fn_held
    /\ rlast.before.fn_mode # "Disabled"
    /\ ~is_fn_key(rlast.before, rlast.key)
    /\ rlast.key \in DOMAIN rlast.before.fn_combos
    /\ rlast.key \in DOMAIN rlast.before.captured_keys
    /\ rlast.result.kind # "FnCombo"

\* C5: a code in the FN-scancode set that also has a direct mapping or an FN
\* combo gets FnModifier on press and on release, never Remapped.
C5_FnPrecedence ==
    (/\ Called
     /\ is_fn_key(rlast.before, rlast.key)
     /\ \/ rlast.key \in DOMAIN rlast.before.mappings
        \/ rlast.key \in DOMAIN rlast.before.fn_combos)
        => rlast.result = FnModifier(rlast.pressed)

C5_Witness ==
    /\ Called /\ is_fn_key(rlast.before, rlast.key)
    /\ rlast.before.enabled /\ rlast.key \in DOMAIN rlast.before.mappings
    /\ rlast.key \in DOMAIN rlast.before.fn_combos
    /\ rlast.before.fn_held
    /\ rlast.result = FnModifier(rlast.pressed)

\* C6 as stated: with remapping enabled, a key with a direct mapping c -> t
\* that is not an FN scancode gets Remapped{c, t} on press and on release,
\* whatever the FN-held state and the combo table are.
C6_Original ==
    (Called /\ MappingApplies /\ ~is_fn_key(rlast.before, rlast.key))
        => rlast.result = Remapped(rlast.key, rlast.before.mappings[rlast.key])

\* C6 amended: ... gets Remapped{c, t} on every release, and on every press
\* except a press made while FN is held, the mode is not Disabled and c has a
\* combo registered, which returns FnCombo instead.
C6_RemappedUnlessCombo ==
    (Called /\ MappingApplies /\ ~is_fn_key(rlast.before, rlast.key))
        => rlast.result =
              IF ComboApplies
              THEN FnCombo(rlast.key, rlast.before.fn_combos[rlast.key])
              ELSE Remapped(rlast.key, rlast.before.mappings[rlast.key])

C6_Witness ==
    /\ Called /\ MappingApplies /\ ~is_fn_key(rlast.before, rlast.key)
    /\ ~rlast.pressed /\ rlast.before.fn_held
    /\ rlast.key \in DOMAIN rlast.before.fn_combos
    /\ rlast.key \in DOMAIN rlast.before.captured_keys
    /\ rlast.before.captured_keys[rlast.key].pressed
    /\ rlast.result = Remapped(rlast.key, rlast.before.mappings[rlast.key])
\* the capture table entry that one observation (key, pressed, label) leaves
Observed(captured_keys, key, pressed, label) ==
    [pressed |-> pressed,
     press_count |-> (IF key \in DOMAIN captured_keys
                      THEN captured_keys[key].press_count ELSE 0)
                     + (IF pressed THEN 1 ELSE 0),
     label |-> IF label = None /\ key \in DOMAIN captured_keys
               THEN captured_keys[key].label ELSE label]

\* the entry of key in the capture table, without scancode and time stamp
Entry(captured_keys, key) ==
    [pressed |-> captured_keys[key].pressed,
     press_count |-> captured_keys[key].press_count,
     label |-> captured_keys[key].label]

\* C7: for a code in the FN-scancode set process_key(code, p) sets FN-held to
\* p, records the transition in the capture table with label "Fn" and returns
\* FnModifier{p}, in every FN mode and whatever the enabled flag is.
C7_FnDetection ==
    (Called /\ is_fn_key(rlast.before, rlast.key))
        => /\ rlast.after.fn_held = rlast.pressed
           /\ rlast.key \in DOMAIN rlast.after.captured_keys
           /\ Entry(rlast.after.captured_keys, rlast.key)
                 = Observed(rlast.before.captured_keys, rlast.key, rlast.pressed, "Fn")
           /\ rlast.after.captured_keys[rlast.key].label = "Fn"
           /\ rlast.result = FnModifier(rlast.pressed)

C7_Witness ==
    /\ Called /\ is_fn_key(rlast.before, rlast.key)
    /\ rlast.before.fn_mode = "Disabled" /\ ~rlast.before.enabled
    /\ rlast.pressed /\ rlast.after.fn_held
    /\ rlast.after.captured_keys[rlast.key].label = "Fn"

\* C8: after any sequence of press/release events, is_fn_held() is true
\* exactly when at least one recognized FN key is currently held down.
C8_FnHeldTracksHeldKeys ==
    remapper.fn_held <=> (\E k \in down : is_fn_key(remapper, k))

C10_ColdStartUncertain ==
    vtest.total_keystrokes <= 9 => vtest.session_classification = "Uncertain"

C10_Witness ==
    /\ vtest.total_keystrokes = 9
    /\ 2 * vtest.virtual_count > vtest.total_keystrokes
    /\ recent_anomalies(vtest, vnow) >= 3
    /\ vtest.session_classification = "Uncertain"
\* the first branch of the classification table that matches, for s suspicious
\* presses out of t and a anomalies less than 5 seconds old; the ratio tests
\* are s/t > 1/2, s/t > 1/5 and s/t > 1/20
FirstBranch(s, t, a) ==
    LET table == << <<2 * s > t \/ a >= 3, "Virtual">>,
                    <<5 * s > t \/ a >= 1, "LikelyVirtual">>,
                    <<20 * s > t, "Uncertain">>,
                    <<t > 50, "Physical">>,
                    <<TRUE, "LikelyPhysical">> >>
        first == CHOOSE i \in 1..5 : table[i][1] /\ \A j \in 1..(i - 1) : ~table[j][1]
    IN table[first][2]

\* the recorded anomalies less than 5 seconds old at the last press
RecentAtPress ==
    Cardinality({i \in 1..Len(vtest.anomalies) :
                    vnow - vtest.anomalies[i].timestamp < 5000})

PressTime(k) ==
    LET n == Len(vtest.intervals)
    IN vnow - SeqSum(SubSeq(vtest.intervals, n - (5 - k) + 1, n))

\* the last five presses span at most 40 ms
Fast5 ==
    /\ vtest.total_keystrokes >= 5
    /\ PressTime(5) - PressTime(1) <= 40

\* a High anomaly recorded for one of the last five presses
HighForLast5 ==
    \E i \in 1..Len(vtest.anomalies) :
        /\ vtest.anomalies[i].severity = "High"
        /\ vtest.anomalies[i].timestamp >= PressTime(1)

\* the last press was counted as suspicious
LastPressSuspicious == vtest.virtual_count = vprev.virtual_count + 1

\* the first of the last five presses that follows its predecessor by less
\* than 15 ms (there is one: four intervals sum to at most 40 ms)
FirstFastOfLast5 ==
    LET n == Len(vtest.intervals)
        fast == {k \in 2..5 : vtest.intervals[n - (5 - k)] < 15}
    IN CHOOSE k \in fast : \A j \in fast : k <= j

\* an entry of the history less than 100 ms older than that press
DedupedByEarlier ==
    \E i \in 1..Len(vtest.anomalies) :
        /\ vtest.anomalies[i].timestamp < PressTime(FirstFastOfLast5)
        /\ PressTime(FirstFastOfLast5) - vtest.anomalies[i].timestamp < 100

\* C12 as stated: in any reachable classifier state, 5 presses spanning at
\* most 40 ms leave a High anomaly recorded for those presses and the 5th
\* press counted as suspicious.
C12_Original ==
    Fast5 => (HighForLast5 /\ LastPressSuspicious)

\* C12 amended: 5 presses spanning at most 40 ms always count the 5th press as
\* suspicious; a High anomaly is recorded for them unless the history already
\* holds an entry less than 100 ms older than the first of them that follows
\* its predecessor by less than 15 ms; on a fresh classifier it is recorded.
C12_BurstUnlessDeduped ==
    Fast5 => /\ LastPressSuspicious
             /\ HighForLast5 \/ DedupedByEarlier
             /\ vtest.total_keystrokes = 5 => HighForLast5

C12_Witness ==
    /\ Fast5
    /\ vtest.total_keystrokes > 5
    /\ vtest.intervals[Len(vtest.intervals)] = 25
    /\ Len(vtest.anomalies) >= 2
    /\ HighForLast5
    /\ LastPressSuspicious
\* C13: a fresh classifier fed 10 presses exactly 100 ms apart has recorded a
\* Medium "perfect timing" anomaly once the 10th press has been processed.
C13_PerfectTimingAtTenthPress ==
    (/\ vtest.total_keystrokes = 10
     /\ Len(vtest.intervals) = 9
     /\ \A i \in 1..9 : vtest.intervals[i] = 100)
        => \E i \in 1..Len(vtest.anomalies) :
               /\ vtest.anomalies[i].severity = "Medium"
               /\ vtest.anomalies[i].description = "Perfect timing"
\* C14: an anomaly computed less than 100 ms (by event time stamp) after the
\* most recently recorded one adds no entry to the history, whatever the
\* severities; so consecutive entries of the history are at least 100 ms apart.
C14_AnomalyDedup ==
    /\ \A i \in 1..(Len(vtest.anomalies) - 1) :
          vtest.anomalies[i + 1].timestamp - vtest.anomalies[i].timestamp >= 100
    /\ (/\ vtest.total_keystrokes = vprev.total_keystrokes + 1
        /\ vprev.anomalies # <<>>
        /\ vnow - vprev.anomalies[Len(vprev.anomalies)].timestamp < 100)
           => vtest.anomalies = vprev.anomalies

C14_Witness ==
    /\ vtest.total_keystrokes = vprev.total_keystrokes + 1
    /\ vtest.virtual_count = vprev.virtual_count + 1
    /\ vtest.last_interval_ms = Some(10)
    /\ Len(vtest.anomalies) >= 2
    /\ vtest.anomalies = vprev.anomalies
(***************************************************************************)
(* Properties of the consuming side                                        *)
(***************************************************************************)
\* the input records read so far, in order
RecordsRead == [i \in 1..Len(alog) |-> alog[i].rec]

\* the KeyEvents handed to App::process_event so far, as <<key, type>>
HandedKeys == [i \in 1..Len(handed) |-> <<handed[i].key, handed[i].event_type>>]

\* the results the remapper returned so far, in order
RECURSIVE RemapResults(_)
RemapResults(log) ==
    IF log = <<>> THEN <<>>
    ELSE (IF Head(log).consumer = "oem_test" THEN <<Head(log).result>> ELSE <<>>)
             \o RemapResults(Tail(log))

Key(code, value) == [event_type |-> EV_KEY, code |-> code, value |-> value]

\* C15: from fresh state the records press(30), autorepeat(30), release(30)
\* make the listener emit exactly [Press(30), Release(30)]; the remapper
\* returns [Unchanged(30), Unchanged(30)] and captures nothing; the
\* classifier has total 1, no suspicious press and classification Uncertain.
C15_EndToEnd ==
    (/\ RecordsRead = <<Key(30, 1), Key(30, 2), Key(30, 0)>>
     /\ app.total_events = Len(handed))
        => /\ HandedKeys = << <<30, "Press">>, <<30, "Release">> >>
           /\ RemapResults(plog) = <<Unchanged(30), Unchanged(30)>>
           /\ DOMAIN remapper.captured_keys = {}
           /\ vtest.total_keystrokes = 1
           /\ vtest.virtual_count = 0
           /\ vtest.session_classification = "Uncertain"

C15_Witness ==
    /\ RecordsRead = <<Key(30, 1), Key(30, 2), Key(30, 0)>>
    /\ app.total_events = 2
    /\ Len(handed) = 2
    /\ handed[1].timestamp < handed[2].timestamp
    /\ vtest.total_keystrokes = 1
\* C16: for each key event handled by App::process_event the remapper
\* (oem_test) processes the event before the classifier (virtual_test) does.
\* plog holds two entries per processed event, in the order the consumers ran.
C16_RemapperBeforeClassifier ==
    \A k \in 1..(Len(plog) \div 2) :
        /\ plog[2 * k - 1].consumer = "oem_test"
        /\ plog[2 * k].consumer = "virtual_test"
\* the KeyEvents the listener has sent so far, in the order of the sends
RECURSIVE EmittedAll(_)
EmittedAll(log) ==
    IF log = <<>> THEN <<>> ELSE Head(log).sent \o EmittedAll(Tail(log))

\* the events one consumer of App::process_event has been given, in order
RECURSIVE SeenBy(_, _)
SeenBy(consumer, log) ==
    IF log = <<>> THEN <<>>
    ELSE (IF Head(log).consumer = consumer THEN <<Head(log).event>> ELSE <<>>)
             \o SeenBy(consumer, Tail(log))

\* a is b with some elements left out
RECURSIVE IsSubSeq(_, _)
IsSubSeq(a, b) ==
    IF a = <<>> THEN TRUE
    ELSE IF b = <<>> THEN FALSE
    ELSE IF Head(a) = Head(b) THEN IsSubSeq(Tail(a), Tail(b))
    ELSE IsSubSeq(a, Tail(b))

\* C17: the events reach App::process_event in exactly the order the listener
\* sent them, each at most once and none ahead of an earlier one: what has
\* been handed over plus what is still in the channel is what was sent; and
\* the consumers are given these events in that order.
C17_FifoDelivery ==
    /\ handed \o channel = EmittedAll(alog)
    /\ IsSubSeq(SeenBy("oem_test", plog), handed)
    /\ SeenBy("virtual_test", plog) = SeenBy("oem_test", plog)
    /\ app.total_events = Len(SeenBy("oem_test", plog))

C17_Witness ==
    /\ Len(handed) >= 3
    /\ handed[1].timestamp = handed[2].timestamp
    /\ handed[1].key # handed[2].key
    /\ handed[3].timestamp > handed[2].timestamp
    /\ app.total_events = 3
(***************************************************************************)
(* Properties of the devices of the Acquisitor                             *)
(***************************************************************************)
\* code k is held on device d just before log entry i, judged from the
\* records of device d alone: its latest press or release record for k
\* before i is a press
HeldOnDevice(d, k, i) ==
    LET own == {j \in 1..(i - 1) : /\ alog[j].dev = d
                                    /\ alog[j].rec.event_type = EV_KEY
                                    /\ alog[j].rec.code = k
                                    /\ alog[j].rec.value \in {0, 1}}
    IN /\ own # {}
       /\ alog[CHOOSE j \in own : \A x \in own : x <= j].rec.value = 1

\* C18: the listener keeps one pressed set per open device: a record read
\* from a device is de-duplicated only against the earlier records of the
\* same device, so it sends an event exactly when it changes whether its
\* code is held on that device.
C18_PerDevicePressedSets ==
    \A i \in 1..Len(alog) :
        (alog[i].rec.event_type = EV_KEY /\ alog[i].rec.value \in {0, 1})
            => (alog[i].sent # <<>>
                    <=> (alog[i].rec.value = 1)
                            # HeldOnDevice(alog[i].dev, alog[i].rec.code, i))
\* code k is in the pressed set because of a press read from device d
PressedFrom(d, k) ==
    /\ k \in evdev.pressed_keys
    /\ LET acc == {j \in 1..Len(alog) : /\ alog[j].rec.code = k
                                        /\ alog[j].sent # <<>>
                                        /\ alog[j].sent[1].event_type = "Press"}
       IN /\ acc # {}
          /\ alog[CHOOSE j \in acc : \A x \in acc : x <= j].dev = d

\* C19: when a device is lost while codes read from it are still marked
\* pressed, the listener eventually takes each such code out of the pressed
\* set (emitting a synthesized Release), so no key stays pressed forever.
C19_LostDeviceReleases ==
    \A d \in Devices : \A k \in AcqCodes :
        (d \in lost /\ PressedFrom(d, k)) ~> (k \notin evdev.pressed_keys)
\* C20: EvdevListener::new fails only when every candidate device fails to
\* open, and then with PermissionDenied; a device that fails to open is
\* skipped and new succeeds with the devices that did open.
C20_OpenFailsOnlyIfAllFail ==
    opening.op = "new"
        => LET opened == {i \in 1..Len(opening.outcomes) : opening.outcomes[i] = "Ok"}
           IN /\ opening.result.ok <=> opened # {}
              /\ ~opening.result.ok => opening.result.err = "PermissionDenied"
              /\ opening.result.ok
                    => {opening.result.devices[j] :
                            j \in 1..Len(opening.result.devices)} = opened
\* the pressed set after the records that the devices up to d delivered in
\* the last poll()
PressedAfterDevice(d) ==
    LET upto == SelectSeq(tick.log, LAMBDA e : e.dev <= d)
    IN IF upto = <<>> THEN tick.before ELSE upto[Len(upto)].after

\* C21: in a poll() a short read, a would-block or any other I/O error on one
\* device only ends the reading of that device for this poll(): every device
\* is still read in the same poll() (also one whose read failed in the poll()
\* before), poll() returns its event count, and the pressed set and the
\* events already sent are exactly what the records read have made them.
C21_ReadErrorsAreLocal ==
    tick.op = "poll"
        => /\ [i \in 1..Len(tick.visits) |-> tick.visits[i].dev]
                  = [i \in 1..NumDevices |-> i]
           /\ \A i \in 1..Len(tick.visits) :
                  tick.visits[i].pressed_keys = PressedAfterDevice(tick.visits[i].dev)
           /\ evdev.pressed_keys = PressedAfterDevice(NumDevices)
           /\ channel = tick.channel_before \o EmittedAll(tick.log)
           /\ tick.event_count = Len(EmittedAll(tick.log))

C21_Witness ==
    /\ tick.op = "poll"
    /\ tick.prev # <<>>
    /\ tick.prev[NumDevices].stop = "Error"
    /\ tick.visits[1].stop = "Error"
    /\ tick.visits[NumDevices].stop = "WouldBlock"
    /\ tick.before # {}
    /\ \E i \in 1..Len(tick.log) :
          tick.log[i].dev = NumDevices /\ tick.log[i].sent # <<>>
\* C22: discovery fails with EnumerationFailed whenever the device directory
\* cannot be accessed (it is missing or cannot be read), and with NoDevices
\* exactly when the directory was enumerated and no entry qualified.
C22_EnumerationFailedIffInaccessible ==
    opening.op = "find"
        => /\ opening.result.err = "EnumerationFailed"
                  <=> opening.dir \in {"Missing", "Unreadable"}
           /\ opening.result.err = "NoDevices"
                  <=> /\ opening.dir = "Listed"
                      /\ \A i \in 1..Len(opening.entries) :
                             ~(opening.entries[i].event /\ opening.entries[i].keyboard)
\* the key event processed is the first one after the edit call(..) of its
\* own key
FirstAfter(call) ==
    /\ Called
    /\ redit.call = call
    /\ redit.age = 1
    /\ rlast.key = redit.key

\* C23: a table edit takes effect on the very next key event.  After
\* add_mapping(a, t) the next process_key(a, .) returns Remapped{a, t} when a
\* is no FN scancode, FN is not held and remapping is enabled; after
\* remove_mapping(a) it does not return Remapped.  A combo added while FN is
\* held fires on the next press of its key (a key that is no FN scancode, in
\* a mode other than Disabled) with the target just registered, and a combo
\* removed while FN is held does not fire on the next press.
C23_EditsTakeEffectOnNextEvent ==
    /\ (FirstAfter("add_mapping") /\ ~is_fn_key(rlast.before, rlast.key)
           /\ ~rlast.before.fn_held /\ rlast.before.enabled)
          => rlast.result = Remapped(redit.key, redit.target)
    /\ FirstAfter("remove_mapping") => rlast.result.kind # "Remapped"
    /\ (FirstAfter("add_fn_combo") /\ redit.fn_held /\ rlast.pressed
           /\ ~is_fn_key(rlast.before, rlast.key)
           /\ rlast.before.fn_mode # "Disabled")
          => rlast.result = FnCombo(redit.key, redit.target)
    /\ (FirstAfter("remove_fn_combo") /\ redit.fn_held /\ rlast.pressed)
          => rlast.result.kind # "FnCombo"

\* a combo with a new target replaces the default combo of key 2 while FN is
\* held, and the next press of key 2 gives the new target
C23_Witness ==
    /\ FirstAfter("add_fn_combo") /\ redit.fn_held /\ rlast.pressed
    /\ redit.key = 2 /\ redit.target = 60
    /\ rlast.before.fn_mode # "Disabled"
    /\ rlast.result = FnCombo(2, 60)
\* C24: the capture table holds exactly the scancodes observed since it was
\* last cleared; the press_count of each is the number of its press
\* observations since then (0 when only releases were observed), and an entry
\* that was given a label still has one.
C24_PressCountAndLabel ==
    /\ DOMAIN remapper.captured_keys = DOMAIN cobs
    /\ \A k \in DOMAIN cobs :
          /\ remapper.captured_keys[k].press_count = cobs[k].presses
          /\ cobs[k].labelled => remapper.captured_keys[k].label # None

\* 464 was observed as FN key (labelled), then left the FN scancode set and
\* was observed again without label, press and release; 999 was first seen
\* released
C24_Witness ==
    /\ Called /\ rlast.key = 464
    /\ ~is_fn_key(rlast.before, 464)
    /\ 464 \in DOMAIN rlast.before.captured_keys
    /\ rlast.before.captured_keys[464].label = "Fn"
    /\ cobs[464].presses >= 1 /\ cobs[464].releases >= 1
    /\ remapper.captured_keys[464].label = "Fn"
    /\ \E k \in DOMAIN cobs : cobs[k].presses = 0 /\ cobs[k].releases > 0
\* how many of the recorded results are of a kind
RecordedOf(kind) == Cardinality({i \in 1..Len(recorded) : recorded[i].kind = kind})

\* C25: after n results recorded in a RemapStats, total_processed = n and
\* remapped_count, fn_combo_count and blocked_count are the numbers of
\* Remapped, FnCombo and Blocked results among them; Unchanged and FnModifier
\* results are in no category counter, so the three counters sum to at most
\* total_processed.
C25_StatsFold ==
    /\ app.stats.total_processed = Len(recorded)
    /\ app.stats.remapped_count = RecordedOf("Remapped")
    /\ app.stats.fn_combo_count = RecordedOf("FnCombo")
    /\ app.stats.blocked_count = RecordedOf("Blocked")
    /\ app.stats.unknown_captured = 0
    /\ app.stats.remapped_count + app.stats.fn_combo_count + app.stats.blocked_count
          <= app.stats.total_processed

C25_Witness ==
    /\ Len(recorded) = 3
    /\ recorded[1].kind = "Unchanged"
    /\ recorded[2].kind = "Blocked"
    /\ recorded[3].kind = "FnModifier"
    /\ app.stats.blocked_count = 1
\* a remapper without the time stamps of its capture table
WithoutTimes(self) ==
    [self EXCEPT !.captured_keys =
        [k \in DOMAIN @ |-> [scancode |-> @[k].scancode, pressed |-> @[k].pressed,
                             press_count |-> @[k].press_count, label |-> @[k].label]]]

\* scancodes from all over the u16 range: inside and outside KEYMAP, FN
\* scancodes, both ends of the range
AnyCodes == {0, 1, 2, 55, 464, 480, 999, 65535}

RemapResultKinds == {"Unchanged", "Remapped", "Blocked", "FnModifier", "FnCombo"}

C30_DisabledNeverRemaps ==
    /\ (Called /\ ~rlast.before.enabled) => rlast.result.kind # "Remapped"
    /\ (Called /\ ~rlast.before.enabled
           /\ rlast.key \in KEYMAP /\ rlast.key \in DOMAIN rlast.before.mappings
           /\ ~is_fn_key(rlast.before, rlast.key) /\ ~ComboApplies)
          => rlast.result = Unchanged(rlast.key)
    /\ (Called /\ redit.call = "set_enabled" /\ redit.target /\ redit.age = 1
           /\ rlast.key \in DOMAIN rlast.before.mappings
           /\ ~is_fn_key(rlast.before, rlast.key) /\ ~ComboApplies)
          => rlast.result = Remapped(rlast.key, rlast.before.mappings[rlast.key])

\* key 2 is given a mapping, remapping is disabled, and key 2 is pressed
C30_Witness ==
    /\ Called /\ ~rlast.before.enabled
    /\ rlast.key = 2 /\ rlast.key \in KEYMAP
    /\ 2 \in DOMAIN rlast.before.mappings
    /\ rlast.result = Unchanged(2)
\* C28: App::process_event has no effect unless the App is Running: an event
\* handed over while Paused or Quitting leaves total_events, keyboard_state
\* and the analyzers as they are; and total_events is always the number of
\* events handed over while Running since the last reset_all (so events are
\* counted again once toggle_pause has returned to Running).
C28_OnlyWhileRunning ==
    /\ [](app.total_events = counted)
    /\ [][(handed' # handed /\ app.state # "Running")
            => (app' = app /\ vtest' = vtest /\ remapper' = remapper)]_vars

\* three events were handed over, the second one while Paused: the first and
\* the third are counted and seen by the analyzers
C28_Witness ==
    /\ Len(handed) = 3
    /\ app.state = "Running"
    /\ app.total_events = 2
    /\ SeenBy("oem_test", plog) = <<handed[1], handed[3]>>
    /\ app.keyboard_state.total_events = 2

\* the keys whose latest event since the last reset is a press
LatestIsPress == {k \in DOMAIN kobs : kobs[k] = "Press"}

\* C29: in KeyboardState max_rollover is at least current_rollover and goes
\* down only by a reset; the pressed list has no key twice; and
\* current_rollover is the number of keys whose latest event is a press.
C29_Rollover ==
    /\ [](LET ks == app.keyboard_state
          IN /\ max_rollover(ks) >= current_rollover(ks)
             /\ \A i, j \in 1..Len(ks.pressed_keys) :
                    ks.pressed_keys[i] = ks.pressed_keys[j] => i = j
             /\ {ks.pressed_keys[i] : i \in 1..Len(ks.pressed_keys)} = LatestIsPress
             /\ current_rollover(ks) = Cardinality(LatestIsPress))
    /\ [][max_rollover(app.keyboard_state') >= max_rollover(app.keyboard_state)
            \/ reset_all]_vars

\* two keys were down together, one was released, and the other was pressed
\* once more without a release in between
C29_Witness ==
    /\ max_rollover(app.keyboard_state) = 2
    /\ current_rollover(app.keyboard_state) = 1
    /\ \E k \in DOMAIN app.keyboard_state.keys :
          /\ app.keyboard_state.pressed_keys = <<k>>
          /\ app.keyboard_state.keys[k].press_count = 2
    /\ \E k \in DOMAIN kobs : kobs[k] = "Release"
SessionClassifications == {"Virtual", "LikelyVirtual", "Uncertain", "LikelyPhysical", "Physical"}

\* the session went through a classification in from and later through one
\* in to
Moved(from, to) ==
    \E i, j \in 1..Len(vpath) : i < j /\ vpath[i] \in from /\ vpath[j] \in to

\* C27: the classification is not sticky.  What the classifier holds after a
\* press is what update_classification computes from the counters and the
\* recent anomalies, whatever classification it held before; so sessions move
\* from Virtual or LikelyVirtual back to LikelyPhysical or Physical and the
\* other way, and every value is left again.
C27_NotSticky ==
    vtest.total_keystrokes > 0
        => \A c \in SessionClassifications :
              update_classification([vtest EXCEPT !.session_classification = c],
                                    vnow).session_classification
                  = vtest.session_classification

\* one session that moved from the physical side to the virtual side and
\* back, and left each of the five values
C27_Witness ==
    /\ Moved({"LikelyPhysical", "Physical"}, {"Virtual", "LikelyVirtual"})
    /\ Moved({"Virtual", "LikelyVirtual"}, {"LikelyPhysical", "Physical"})
    /\ \A c \in SessionClassifications :
          \E i \in 1..(Len(vpath) - 1) : vpath[i] = c
\* C31: while the FN mode is CaptureOnly process_key returns FnCombo for no
\* key event, also when FN is held and the pressed code has a combo.
C31_CaptureOnlyNeverCombo ==
    (Called /\ rlast.before.fn_mode = "CaptureOnly") => rlast.result.kind # "FnCombo"
\* C39: under UnknownKeyBehavior::PassThrough a key that is outside KEYMAP,
\* is no FN scancode and has no applicable mapping or combo is returned
\* Unchanged and leaves the capture table as it was.
C39_PassThroughDoesNotCapture ==
    (Called /\ rlast.before.unknown_behavior = "PassThrough"
       /\ rlast.key \notin KEYMAP /\ ~is_fn_key(rlast.before, rlast.key)
       /\ ~MappingApplies /\ ~ComboApplies)
        => /\ rlast.result = Unchanged(rlast.key)
           /\ rlast.after.captured_keys = rlast.before.captured_keys
\* C32: a key event for which the remapper returns Blocked is not processed:
\* no other consumer of App::process_event is given it and total_events does
\* not count it.
C32_BlockedNotProcessed ==
    LET blocked == {i \in 1..Len(plog) : plog[i].consumer = "oem_test"
                                           /\ plog[i].result.kind = "Blocked"}
        passed == {i \in 1..Len(plog) : plog[i].consumer = "oem_test"
                                          /\ plog[i].result.kind # "Blocked"}
    IN /\ \A i \in blocked : \A j \in 1..Len(plog) :
              plog[j].event = plog[i].event => plog[j].consumer = "oem_test"
       /\ app.total_events = Cardinality(passed)
       /\ app.keyboard_state.total_events = Cardinality(passed)

\* C35: last_unknown_scancode() returns the unknown scancode whose press was
\* processed most recently, and add_oem_mapping_for_last_unknown() registers
\* that scancode as FN scancode.
C35_LastUnknownIsMostRecent ==
    /\ LastUnknownPressed # Nothing
          => \A k \in last_unknown_scancode(app.detected_unknown) :
                Some(k) = LastUnknownPressed
    /\ redit.call = "add_oem_mapping_for_last_unknown"
          => Some(redit.key) = redit.target
\* C33: whenever the shortcut analyzer has recorded a shortcut, the overlay
\* fields of the App hold that shortcut: the first of the session and every
\* later one.
C33_OverlayShowsLatestShortcut ==
    LET h == app.shortcut_test.shortcut_history
    IN h # <<>>
          => /\ app.last_shortcut # Nothing
             /\ app.last_shortcut[1].combo = h[Len(h)].combo
\* C40: pressed-key tracking is consistent across a pause: while the App is
\* Running and every emitted event has been handed over, a key whose latest
\* event is a release (also one handed over while Paused) is not held in
\* KeyboardState nor in the stickiness test, and FN is not held if the key is
\* an FN scancode.
C40_ReleaseDuringPauseSeen ==
    app.state = "Running"
        => LET latest == LatestTypes(<<>>, handed)
           IN \A k \in DOMAIN latest :
                 latest[k] = "Release"
                    => /\ \A i \in 1..Len(app.keyboard_state.pressed_keys) :
                              app.keyboard_state.pressed_keys[i] # k
                       /\ k \notin DOMAIN app.stickiness_test.held_keys
                       /\ is_fn_key(remapper, k) => ~remapper.fn_held
\* C36: after any sequence of poll(), set_enabled() and reset(), pressed_keys
\* is the set of codes whose most recently emitted event is a Press, and the
\* release record of a code whose most recently emitted event is a Press is
\* emitted as Release when it is read.
C36_PressedIsLatestPress ==
    LET latest == LatestTypes(<<>>, channel)
    IN /\ evdev.pressed_keys = {k \in DOMAIN latest : latest[k] = "Press"}
       /\ \A i \in 1..Len(alog) :
              (alog[i].rec.event_type = EV_KEY /\ alog[i].rec.value = 0
                 /\ \E j \in 1..(i - 1) :
                       /\ alog[j].sent # <<>>
                       /\ alog[j].sent[1].key = alog[i].rec.code
                       /\ alog[j].sent[1].event_type = "Press"
                       /\ \A m \in (j + 1)..(i - 1) :
                             alog[m].sent = <<>>
                                \/ alog[m].sent[1].key # alog[i].rec.code)
                 => /\ alog[i].sent # <<>>
                    /\ alog[i].sent[1].event_type = "Release"
\* the records of alog that were sent as a Press, in reading order
SentPresses == SelectSeq(alog, LAMBDA e : e.sent # <<>> /\ e.sent[1].event_type = "Press")

\* C37: two presses of distinct keys read in the same poll() reach the
\* classifier with an interval that reflects their real spacing: presses whose
\* kernel times are at least MIN_HUMAN_INTERVAL_MS apart are given an interval
\* of at least that, and while every press is that far from the one before it
\* no "Inhuman speed" anomaly is recorded.
C37_IntervalReflectsSpacing ==
    LET p == SentPresses
        n == Len(p)
        spaced(i) == p[i].rec.time - p[i - 1].rec.time >= MIN_HUMAN_INTERVAL_MS
    IN /\ (n >= 2 /\ p[n].rec.code # p[n - 1].rec.code
             /\ p[n].sent[1].timestamp = p[n - 1].sent[1].timestamp /\ spaced(n))
            => /\ vtest.last_interval_ms # Nothing
               /\ vtest.last_interval_ms[1] >= MIN_HUMAN_INTERVAL_MS
       /\ (\A i \in 2..n : spaced(i))
            => \A a \in 1..Len(vtest.anomalies) :
                  vtest.anomalies[a].description # "Inhuman speed"
\* C34: when a virtual-key diagnostic resolves (a press processed at least
\* 500 ms after the send, in test mode), the outcome tells which keys were
\* received since the send: KeyboardOk for keyboard and injected presses both,
\* HardwareIssue for injected presses only, ApiIssue for keyboard presses
\* only, SoftwareIssue for neither.
C34_DiagnosticOutcome ==
    (vprev.test_mode_active /\ ~vtest.test_mode_active)
        => LET since == {i \in 1..Len(handed) :
                            /\ handed[i].event_type = "Press"
                            /\ handed[i].timestamp >= vprev.virtual_send_time[1]}
               physical == \E i \in since : handed[i].origin = "physical"
               virtual == \E i \in since : handed[i].origin = "virtual"
           IN vtest.diagnostic =
                  IF physical THEN IF virtual THEN "KeyboardOk" ELSE "ApiIssue"
                  ELSE IF virtual THEN "HardwareIssue" ELSE "SoftwareIssue"
\* C38: the suspicious count never exceeds the total; a press adds one to
\* the total and at most one to the suspicious count (vprev is the classifier
\* before the latest press), also when the interval and the burst analysis
\* both flag it and its anomaly is de-duplicated; a release leaves the whole
\* classifier as it was.
C38_CountersInStep ==
    /\ vtest.virtual_count <= vtest.total_keystrokes
    /\ \/ vtest = vprev
       \/ /\ vtest.total_keystrokes = vprev.total_keystrokes + 1
          /\ vtest.virtual_count \in {vprev.virtual_count, vprev.virtual_count + 1}
    /\ \A dt \in Deltas :
          Virtual_process_event(vtest, "Release", vnow + dt, vnow + dt) = vtest

\* a press flagged by the interval and by the burst analysis, whose anomaly
\* was de-duplicated, counted once
C38_Witness ==
    /\ vtest.last_interval_ms # Nothing
    /\ vtest.last_interval_ms[1] < MIN_HUMAN_INTERVAL_MS
    /\ Len(vtest.burst_window) >= BURST_COUNT_THRESHOLD
    /\ vtest.anomalies = vprev.anomalies
    /\ vtest.total_keystrokes = vprev.total_keystrokes + 1
    /\ vtest.virtual_count = vprev.virtual_count + 1
====
